---- MODULE Spec2Model ----
(***************************************************************************)
(* Model of field-template-mcp: the input normalizer, the bounded batch    *)
(* processor and the LLM tool loops (classify / tag / extract with the     *)
(* validate-coerce-retry loop).                                            *)
(*                                                                         *)
(* The module holds three state machines over one set of variables:        *)
(*   SpecNorm   InputNormalizer.normalize applied to a drawn input list    *)
(*   SpecBatch  batch_process: tasks, the semaphore and asyncio.gather     *)
(*   SpecTools  classify_by_llm / tag_by_llm / extract_by_llm item loops   *)
(* A machine that is not running keeps its variables at their idle value.  *)
(***************************************************************************)
EXTENDS Integers, Sequences, FiniteSets, TLC

VARIABLES
    \* ---- InputNormalizer.normalize
    input_list,        \* the caller's list
    normalized,        \* the list normalize returned
    auto_id_counter,   \* the counter when normalize returned
    npc,               \* "call" before, "done" after the call
    \* ---- batch_process
    items,             \* normalized items {id, data} handed to batch_process
    max_concurrent,    \* the concurrency limit
    semaphore,         \* free slots of asyncio.Semaphore(max_concurrent)
    task,              \* task[k]: "pending" | "running" | "done"
    outcome,           \* outcome[k]: what operation(items[k]) did
    task_result,       \* task_result[k]: the OutputItem the task returned
    finish_order,      \* indices of the tasks in completion order
    results,           \* the list batch_process returned
    metadata,          \* the ProcessMetadata batch_process returned
    bpc,               \* "gather" while awaiting, "returned" after
    \* ---- classify_by_llm / tag_by_llm / extract_by_llm
    tool,              \* which tool was called
    args,              \* its parameters and args dict
    tool_input,        \* the caller's input list
    tool_items,        \* InputNormalizer.normalize(input)
    cur,               \* index of the item of the for loop
    attempt,           \* attempt of the retry loop whose call is awaited
    user_prompt,       \* the user prompt of the awaited call (lines)
    result_data,       \* result_data of the retry loop
    last_error,        \* last_error of the retry loop
    tool_results,      \* the results list
    hist,              \* history: the backend calls made for item hist_item
    hist_item,         \* history: the item hist belongs to (0: none yet)
    raised_items,      \* history: items whose processing raised to the item handler
    tpc,               \* "start" | "await" (a backend call) | "returned" | "raised"
    \* ---- FieldResolver.resolve
    resolve_prompt,    \* the prompt argument (a sequence of characters)
    resolve_inputs,    \* the inputs dict: field name -> value
    resolve_default,   \* the default argument
    field_refs,        \* field_refs: the names extracted from the prompt
    field_i,           \* position of the for loop in field_refs
    resolved,          \* resolved: the text being rewritten, then returned
    rpc,               \* "call" | "loop" | "returned"
    \* ---- TemplateLoader / DynamicToolRegistry
    dir_exists,        \* templates_dir.exists()
    dir_files,         \* the *.json files of templates_dir, in glob order
    loader,            \* _template_loader: "none" | "ready"
    templates,         \* TemplateLoader._templates, a dict in insertion order
    registry,          \* _registry: "none" | "ready"
    executors,         \* DynamicToolRegistry.executors, a dict in insertion order
    op,                \* the call in progress or last made
    load_files,        \* the files the running load iterates over
    load_i,            \* position of the load's for loop
    pre_templates,     \* history: _templates when the call began
    pre_executors,     \* history: executors when the call began
    op_result,         \* "none" | "returned" | the exception the call raised
    lpc,               \* "idle" (no call in progress) | "loading" | "executors"
    \* ---- TypeCoercer.coerce_object_to_schema
    co_data,           \* the object X
    co_schema,         \* the schema S
    co_once,           \* coerce_object_to_schema(X, S)
    co_twice,          \* coerce_object_to_schema(co_once, S)
    cpc,               \* "call" | "once" | "twice"
    \* ---- OperationStrategy.execute
    strategy,          \* "single_choice" | "multi_label" | "extraction"
    strat_params,      \* the params of the call
    strat_items,       \* normalized_input
    strat_replies,     \* history: what the backend calls returned
    strat_results,     \* the results list of execute
    strat_error,       \* the exception that left execute
    spc                \* "await" (a backend call) | "returned" | "raised"

normVars  == <<input_list, normalized, auto_id_counter, npc>>
batchVars == <<items, max_concurrent, semaphore, task, outcome, task_result,
               finish_order, results, metadata, bpc>>
toolVars == <<tool, args, tool_input, tool_items, cur, attempt, user_prompt,
              result_data, last_error, tool_results, hist, hist_item,
              raised_items, tpc>>
resolveVars == <<resolve_prompt, resolve_inputs, resolve_default, field_refs,
                 field_i, resolved, rpc>>
loaderVars == <<dir_exists, dir_files, loader, templates, registry, executors, op,
                load_files, load_i, pre_templates, pre_executors, op_result, lpc>>
coerceVars == <<co_data, co_schema, co_once, co_twice, cpc>>
stratVars == <<strategy, strat_params, strat_items, strat_replies, strat_results,
               strat_error, spc>>
vars == <<normVars, batchVars, toolVars, resolveVars, loaderVars, coerceVars, stratVars>>

-----------------------------------------------------------------------------
(* Bounds                                                                  *)
MaxLen == 3
MaxItems == 3
MaxConcurrent == 2
MaxToolItems == 2
MaxRetries == 2

-----------------------------------------------------------------------------
(* Ids.  Python ids are ints or strings, or any other value a caller puts  *)
(* under "id" (None here); an absent "id" key is NoId.                     *)
IntId(n) == [t |-> "int", n |-> n, s |-> ""]
StrId(x) == [t |-> "str", n |-> 0, s |-> x]
NoneId   == [t |-> "NoneType", n |-> 0, s |-> ""]
NoId     == [t |-> "absent", n |-> 0, s |-> ""]

(* A caller's list element: a mapping (isdict) with or without the keys    *)
(* "id" and "data", or a plain value.  val is the "data" value of a        *)
(* mapping that has one, and the value itself for a plain value.           *)
RawItem(isdict, hasId, id, hasData, val) ==
    [isdict |-> isdict, hasId |-> hasId, id |-> id, hasData |-> hasData, val |-> val]

ExplicitIds == {IntId(0), StrId("a1"), NoneId}

RawItems ==
       {RawItem(FALSE, FALSE, NoId, FALSE, "text")}
  \cup {RawItem(TRUE, FALSE, NoId, d, "text") : d \in BOOLEAN}
  \cup {RawItem(TRUE, TRUE, i, d, "text") : i \in ExplicitIds, d \in BOOLEAN}

RECURSIVE SeqsUpTo(_, _)
SeqsUpTo(S, n) ==
    IF n = 0 THEN {<<>>}
    ELSE LET shorter == SeqsUpTo(S, n - 1)
         IN  shorter \cup {Append(q, x) : q \in {r \in shorter : Len(r) = n - 1}, x \in S}

-----------------------------------------------------------------------------
(* InputNormalizer.normalize                                               *)

(* {"id": ..., "data": ...}: data is the item's own "data" value           *)
(* (whole = FALSE) or the whole element wrapped as data (whole = TRUE).    *)
NormItem(id, whole, raw) == [id |-> id, data |-> [whole |-> whole, raw |-> raw]]

(* One iteration of the for loop: st = [out, counter].                     *)
normalize_step_skip_counter(st, item) ==
    IF item.isdict /\ item.hasId /\ item.hasData
      THEN [out |-> Append(st.out, NormItem(item.id, FALSE, item)), counter |-> st.counter]
    ELSE IF item.isdict /\ item.hasId
      THEN [out |-> Append(st.out, NormItem(item.id, TRUE, item)), counter |-> st.counter + 1]
    ELSE [out |-> Append(st.out, NormItem(IntId(st.counter), TRUE, item)),
          counter |-> st.counter + 1]

normalize_step(st, item) ==
    IF item.isdict /\ item.hasId /\ item.hasData
      THEN [out |-> Append(st.out, NormItem(item.id, FALSE, item)), counter |-> st.counter]
    ELSE IF item.isdict /\ item.hasId
      THEN [out |-> Append(st.out, NormItem(item.id, TRUE, item)), counter |-> st.counter]
    ELSE IF item.isdict
      THEN [out |-> Append(st.out, NormItem(IntId(st.counter), TRUE, item)),
            counter |-> st.counter + 1]
    ELSE [out |-> Append(st.out, NormItem(IntId(st.counter), TRUE, item)),
          counter |-> st.counter + 1]

RECURSIVE normalize_loop(_, _, _)
normalize_loop(list, k, st) ==
    IF k > Len(list) THEN st
    ELSE normalize_loop(list, k + 1, normalize_step(st, list[k]))

normalize(list) == normalize_loop(list, 1, [out |-> <<>>, counter |-> 0])

NormalizeCall ==
    /\ npc = "call"
    /\ LET r == normalize(input_list)
       IN  /\ normalized' = r.out
           /\ auto_id_counter' = r.counter
    /\ npc' = "done"
    /\ UNCHANGED <<input_list, batchVars, toolVars, resolveVars, loaderVars, coerceVars, stratVars>>

-----------------------------------------------------------------------------
(* batch_process                                                           *)

(* Optional values: None, or a present value (possibly the empty string).  *)
None == [null |-> TRUE, v |-> ""]
Some(x) == [null |-> FALSE, v |-> x]

(* OutputItem(id=..., result=..., error=...); result and error default to  *)
(* None.  An int or str id passes the Union[int, str] field unchanged.     *)
OutputItem(id, result, error) == [id |-> id, result |-> result, error |-> error]

(* the constructor validates id against Union[int, str]: any other value   *)
(* raises pydantic's ValidationError                                       *)
output_item_raises(id) == id.t \notin {"int", "str"}

(* items as normalize returns them: an auto id, a preserved str id, a      *)
(* preserved id that is None                                               *)
BatchItemSet == {NormItem(IntId(0), TRUE, RawItem(FALSE, FALSE, NoId, FALSE, "text")),
                 NormItem(StrId("a1"), FALSE, RawItem(TRUE, TRUE, StrId("a1"), TRUE, "text")),
                 NormItem(NoneId, FALSE, RawItem(TRUE, TRUE, NoneId, TRUE, "text"))}

(* what `await operation(item)` can do: return a value (None included) or  *)
(* raise an exception e, of which str(e) may be empty                      *)
ReturnValues == {Some("ok"), None}
RaiseMessages == {"boom", ""}

NoOutcome == [kind |-> "none", value |-> None, msg |-> ""]
Returned(v) == [kind |-> "return", value |-> v, msg |-> ""]
Raised(m) == [kind |-> "raise", value |-> None, msg |-> m]

NoOutput == OutputItem(NoId, None, None)

(* `async with semaphore:` admits a task only while a slot is free         *)
semaphore_unlocked_always(sem) == TRUE
semaphore_unlocked(sem) == sem > 0

(* the two exits of the try block of process_with_semaphore               *)
process_with_semaphore_exit(item, o) ==
    IF o.kind = "return"
      THEN OutputItem(item.id, o.value, None)
      ELSE OutputItem(item.id, None, Some(o.msg))

(* asyncio.gather over the tasks: resolves once every task is done, the    *)
(* results in the order of the tasks it was given                          *)
gather_done(t) == \A k \in DOMAIN t : t[k] = "done"

gather_results_completion_order(tr, order) ==
    [k \in 1..Len(order) |-> tr[order[k]]]
gather_results(tr, order) == [k \in DOMAIN tr |-> tr[k]]

(* lines 54-62: successful counts the records whose error is None          *)
ProcessMetadata_truthy_error(its, res) ==
    LET successful == Cardinality({k \in DOMAIN res : res[k].error.null \/ res[k].error.v = ""})
    IN  [total_items |-> Len(its), successful |-> successful,
         failed |-> Len(res) - successful]

ProcessMetadata(its, res) ==
    LET successful == Cardinality({k \in DOMAIN res : res[k].error.null})
    IN  [total_items |-> Len(its), successful |-> successful,
         failed |-> Len(res) - successful]

(* a task enters `async with semaphore` and starts `await operation(item)` *)
Acquire(k) ==
    /\ bpc = "gather"
    /\ task[k] = "pending"
    /\ semaphore_unlocked(semaphore)
    /\ semaphore' = semaphore - 1
    /\ task' = [task EXCEPT ![k] = "running"]
    /\ UNCHANGED <<items, max_concurrent, outcome, task_result, finish_order,
                   results, metadata, bpc, normVars, toolVars, resolveVars, loaderVars, coerceVars, stratVars>>

(* the operation completes with outcome o; the task builds its OutputItem, *)
(* leaves the `async with` block (releasing the slot) and is done.  When   *)
(* the constructor raises in the try block it raises again in the except   *)
(* clause, and the exception leaves the task: the task has failed.         *)
Complete(k, o) ==
    /\ bpc = "gather"
    /\ task[k] = "running"
    /\ outcome' = [outcome EXCEPT ![k] = o]
    /\ IF output_item_raises(items[k].id)
         THEN /\ task' = [task EXCEPT ![k] = "failed"]
              /\ UNCHANGED task_result
         ELSE /\ task' = [task EXCEPT ![k] = "done"]
              /\ task_result' = [task_result EXCEPT
                                    ![k] = process_with_semaphore_exit(items[k], o)]
    /\ semaphore' = semaphore + 1
    /\ finish_order' = Append(finish_order, k)
    /\ UNCHANGED <<items, max_concurrent, results, metadata, bpc, normVars, toolVars, resolveVars, loaderVars, coerceVars, stratVars>>

OperationReturns(k) == \E v \in ReturnValues : Complete(k, Returned(v))
OperationRaises(k) == \E m \in RaiseMessages : Complete(k, Raised(m))

(* gather resolves; the metadata is computed and batch_process returns     *)
BatchReturn ==
    /\ bpc = "gather"
    /\ gather_done(task)
    /\ LET res == gather_results(task_result, finish_order)
       IN  /\ results' = res
           /\ metadata' = ProcessMetadata(items, res)
    /\ bpc' = "returned"
    /\ UNCHANGED <<items, max_concurrent, semaphore, task, outcome, task_result,
                   finish_order, normVars, toolVars, resolveVars, loaderVars, coerceVars, stratVars>>

(* gather (return_exceptions=False) hands the exception of a failed task   *)
(* to its awaiter: batch_process raises; the other tasks are not awaited   *)
(* any more                                                                *)
BatchRaise ==
    /\ bpc = "gather"
    /\ \E k \in DOMAIN task : task[k] = "failed"
    /\ bpc' = "raised"
    /\ UNCHANGED <<items, max_concurrent, semaphore, task, outcome, task_result,
                   finish_order, results, metadata,
                   normVars, toolVars, resolveVars, loaderVars, coerceVars, stratVars>>

-----------------------------------------------------------------------------
(* JSON values as json.loads returns them.  t is the JSON type; s holds a  *)
(* string, n an integer or a boolean (1/0), a the elements of an array and *)
(* d the members of an object.                                             *)
EmptyDict == [k \in {} |-> 0]
JNull     == [t |-> "null",    s |-> "", n |-> 0, a |-> <<>>, d |-> EmptyDict]
JStr(x)   == [t |-> "string",  s |-> x,  n |-> 0, a |-> <<>>, d |-> EmptyDict]
JInt(i)   == [t |-> "integer", s |-> "", n |-> i, a |-> <<>>, d |-> EmptyDict]
JBool(b)  == [t |-> "boolean", s |-> "", n |-> IF b THEN 1 ELSE 0, a |-> <<>>, d |-> EmptyDict]
JArr(q)   == [t |-> "array",   s |-> "", n |-> 0, a |-> q,    d |-> EmptyDict]
JObj(f)   == [t |-> "object",  s |-> "", n |-> 0, a |-> <<>>, d |-> f]
(* a float, n in hundredths *)
JNum(h)   == [t |-> "number",  s |-> "", n |-> h, a |-> <<>>, d |-> EmptyDict]

(* the strings and integers of the model, with Python's str() and int()    *)
(* on them; NoParse marks a ValueError of int()/float()                    *)
NoParse == [ok |-> FALSE, value |-> JNull]
Parsed(v) == [ok |-> TRUE, value |-> v]

(* str.strip() and str.lower() on the strings of the model *)
py_strip(x) ==
    CASE x = " sports\n" -> "sports"
      [] x = " Backend" -> "Backend"
      [] x = " ux" -> "ux"
      [] x = " 12 " -> "12"
      [] x = " 2025-10-17 " -> "2025-10-17"
      [] OTHER -> x

py_lower(x) ==
    CASE x = "Tech" -> "tech"
      [] x = "Frontend" -> "frontend"
      [] x = "backend and FRONTEND" -> "backend and frontend"
      [] x = "api, Backend, ux" -> "api, backend, ux"
      [] x = "Backend" -> "backend"
      [] x = "Author: Wade" -> "author: wade"
      [] x = "True" -> "true"
      [] x = "ACTIVE" -> "active"
      [] x = "Active" -> "active"
      [] x = "Oct 17, 2025" -> "oct 17, 2025"
      [] x = "2025-10-17T10:00:00" -> "2025-10-17t10:00:00"
      [] x = "None" -> "none"
      [] x = "False" -> "false"
      [] OTHER -> x

(* int(x) and float(x) on the strings of the model *)
py_int(x) ==
    CASE x = "2025" -> Parsed(JInt(2025))
      [] x = "12" -> Parsed(JInt(12))
      [] x = "1234" -> Parsed(JInt(1234))
      [] x = "1" -> Parsed(JInt(1))
      [] OTHER -> NoParse

py_float(x) ==
    CASE x = "3.5" -> Parsed(JNum(350))
      [] x = "0.5" -> Parsed(JNum(50))
      [] x = "50" -> Parsed(JNum(5000))
      [] x = "12" -> Parsed(JNum(1200))
      [] x = "1" -> Parsed(JNum(100))
      [] x = "2025" -> Parsed(JNum(202500))
      [] x = "1234" -> Parsed(JNum(123400))
      [] OTHER -> NoParse

py_str(v) ==
    CASE v.t = "string" -> v.s
      [] v.t = "null" -> "None"
      [] v.t = "boolean" -> IF v.n = 1 THEN "True" ELSE "False"
      [] v = JInt(2025) -> "2025"
      [] v = JInt(12) -> "12"
      [] v = JInt(1234) -> "1234"
      [] v = JInt(1) -> "1"
      [] v = JNum(50) -> "0.5"
      [] v = JNum(350) -> "3.5"
      [] v = JArr(<<>>) -> "[]"
      [] v = JArr(<<JStr("Wade")>>) -> "['Wade']"
      [] v = JObj([year |-> JStr("2025")]) -> "{'year': '2025'}"
      [] OTHER -> "<repr>"

(* re.sub(r'[\$,...]', '', x): currency signs and thousand separators go *)
remove_currency(x) ==
    CASE x = "$1,234" -> "1234"
      [] OTHER -> x

(* '%' in x, x.replace('%', ''), '.' in x *)
has_percent(x) == x \in {"50%"}
remove_percent(x) == IF x = "50%" THEN "50" ELSE x
has_point(x) == x \in {"3.5", "0.5"}

(* TypeCoercer.coerce_to_number: numbers (bool included) pass; None fails; *)
(* otherwise the stripped text, without currency signs and separators, is  *)
(* parsed: a percentage as float / 100, a text without '.' by int(), any   *)
(* other by float()                                                        *)
coerce_to_number(value) ==
    IF value.t \in {"integer", "number", "boolean"} THEN Parsed(value)
    ELSE IF value.t = "null" THEN NoParse
    ELSE LET cleaned == remove_currency(py_strip(py_str(value)))
         IN  IF has_percent(cleaned)
               THEN LET f == py_float(remove_percent(cleaned))
                    IN  IF f.ok THEN Parsed(JNum(f.value.n \div 100)) ELSE NoParse
             ELSE IF ~has_point(cleaned) THEN py_int(cleaned)
             ELSE py_float(cleaned)

(* TypeCoercer.coerce_to_date: an ISO date is returned as it is, a text in *)
(* one of the ten formats as its ISO date; None fails                      *)
is_iso_date(x) == x \in {"2025-10-17"}

strptime_date(x) ==
    CASE x = "2025-10-17" -> [ok |-> TRUE, date |-> "2025-10-17"]
      [] x = "10/17/2025" -> [ok |-> TRUE, date |-> "2025-10-17"]
      [] x = "Oct 17, 2025" -> [ok |-> TRUE, date |-> "2025-10-17"]
      [] x = "2025-10-17T10:00:00" -> [ok |-> TRUE, date |-> "2025-10-17"]
      [] OTHER -> [ok |-> FALSE, date |-> ""]

coerce_to_date(value) ==
    IF value.t = "null" THEN NoParse
    ELSE LET str_value == py_strip(py_str(value))
         IN  IF is_iso_date(str_value) THEN Parsed(JStr(str_value))
             ELSE IF strptime_date(str_value).ok
               THEN Parsed(JStr(strptime_date(str_value).date))
             ELSE NoParse

(* TypeCoercer.coerce_to_boolean *)
coerce_to_boolean(value) ==
    IF value.t = "boolean" THEN Parsed(value)
    ELSE IF value.t \in {"integer", "number"} THEN Parsed(JBool(value.n # 0))
    ELSE IF value.t = "null" THEN NoParse
    ELSE LET str_value == py_lower(py_strip(py_str(value)))
         IN  IF str_value \in {"true", "yes", "y", "1", "t", "on", "enabled"}
               THEN Parsed(JBool(TRUE))
             ELSE IF str_value \in {"false", "no", "n", "0", "f", "off", "disabled"}
               THEN Parsed(JBool(FALSE))
             ELSE NoParse

(* TypeCoercer.coerce_to_string *)
coerce_to_string_repr(value) ==
    IF value.t = "null" THEN JStr("")
    ELSE IF value.t = "string" THEN JStr("'" \o value.s \o "'")
    ELSE JStr(py_str(value))

coerce_to_string(value) == IF value.t = "null" THEN JStr("") ELSE JStr(py_str(value))

(* TypeCoercer.coerce_to_type *)
coerce_to_type(value, target_type) ==
    IF target_type = "string" THEN coerce_to_string(value)
    ELSE IF target_type \in {"number", "integer"}
      THEN LET coerced == coerce_to_number(value)
           IN  IF coerced.ok THEN coerced.value ELSE value
    ELSE IF target_type = "boolean"
      THEN LET coerced == coerce_to_boolean(value)
           IN  IF coerced.ok THEN coerced.value ELSE value
    ELSE IF target_type = "null" THEN JNull
    ELSE value

(* Python's == on scalars: True == 1 and 1 == 1.0 *)
is_numeric(v) == v.t \in {"integer", "number", "boolean"}
num_value(v) == IF v.t = "number" THEN v.n ELSE v.n * 100
py_eq(u, v) == IF is_numeric(u) /\ is_numeric(v) THEN num_value(u) = num_value(v) ELSE u = v

(* TypeCoercer.coerce_enum: the value when it is in the enum, else the     *)
(* first enum string equal to it up to case, else None                     *)
coerce_enum(value, enum_values) ==
    IF \E i \in 1..Len(enum_values) : py_eq(value, enum_values[i]) THEN Parsed(value)
    ELSE LET same == {i \in 1..Len(enum_values) :
                        /\ value.t = "string" /\ enum_values[i].t = "string"
                        /\ py_lower(enum_values[i].s) = py_lower(value.s)}
         IN  IF same # {}
               THEN Parsed(enum_values[CHOOSE i \in same : \A j \in same : i <= j])
               ELSE NoParse

(* Schemas.  A schema is a record of the keywords it has; `order` lists    *)
(* the names of `properties` in the order the schema writes them.  A       *)
(* `type` that is one type name is the key type, a `type` that is a list   *)
(* of names is the key type_list.                                          *)
response_format ==
    [type |-> "object",
     properties |-> [authors |-> [type |-> "array", items |-> [type |-> "string"]],
                     year |-> [type |-> "integer"]],
     order |-> <<"authors", "year">>,
     required |-> <<"authors">>]

HasKey(schema, key) == key \in DOMAIN schema

Range(q) == {q[i] : i \in DOMAIN q}

(* lines 307-318: prop_type is the type name, for a list its first name    *)
(* that is not "null" (the list itself when there is none)                 *)
NoTypeName == [is_str |-> FALSE, name |-> ""]
TypeName(t) == [is_str |-> TRUE, name |-> t]

prop_type_of(prop_schema) ==
    IF HasKey(prop_schema, "type_list")
      THEN LET non_null == SelectSeq(prop_schema.type_list, LAMBDA t : t # "null")
           IN  IF non_null = <<>> THEN NoTypeName ELSE TypeName(non_null[1])
    ELSE IF HasKey(prop_schema, "type") THEN TypeName(prop_schema.type)
    ELSE NoTypeName

(* lines 306-332: the coerced value of one declared property               *)
coerce_property(value, prop_schema) ==
    IF /\ HasKey(prop_schema, "type_list")
       /\ value.t = "null" /\ "null" \in Range(prop_schema.type_list)
      THEN JNull
    ELSE IF HasKey(prop_schema, "enum")
      THEN LET coerced_value == coerce_enum(value, prop_schema.enum)
           IN  IF coerced_value.ok /\ coerced_value.value.t # "null"
                 THEN coerced_value.value ELSE value
    ELSE IF HasKey(prop_schema, "format") /\ prop_schema.format = "date"
      THEN LET coerced_date == coerce_to_date(value)
           IN  IF coerced_date.ok THEN coerced_date.value ELSE value
    ELSE IF prop_type_of(prop_schema).is_str
      THEN coerce_to_type(value, prop_type_of(prop_schema).name)
    ELSE value

(* TypeCoercer.coerce_object_to_schema *)
coerce_object_to_schema_declared_only(data, schema) ==
    IF data.t # "object" \/ ~HasKey(schema, "type") \/ schema.type # "object" THEN data
    ELSE LET properties == IF HasKey(schema, "properties") THEN schema.properties
                           ELSE EmptyDict
         IN  JObj([key \in DOMAIN data.d \cap DOMAIN properties |->
                     coerce_property(data.d[key], properties[key])])

coerce_object_to_schema(data, schema) ==
    IF data.t # "object" \/ ~HasKey(schema, "type") \/ schema.type # "object" THEN data
    ELSE LET properties == IF HasKey(schema, "properties") THEN schema.properties
                           ELSE EmptyDict
         IN  JObj([key \in DOMAIN data.d |->
                     IF key \in DOMAIN properties
                       THEN coerce_property(data.d[key], properties[key])
                       ELSE data.d[key]])

-----------------------------------------------------------------------------
(* SchemaValidator over jsonschema (Draft 7), for the keywords type,       *)
(* properties, items, required, enum, minimum, maximum and minItems; the   *)
(* keyword format is not asserted (jsonschema.validate is called without a *)
(* format checker).                                                        *)

(* jsonschema's type check: a bool is no integer                           *)
is_type(v, type) ==
    IF type = "number" THEN v.t \in {"integer", "number"}
    ELSE IF type = "integer" THEN v.t = "integer" \/ (v.t = "number" /\ v.n % 100 = 0)
    ELSE v.t = type

(* jsonschema's equality for enum: as Python's ==, but a bool equals no    *)
(* number                                                                  *)
json_equal(u, v) ==
    IF u.t = "boolean" \/ v.t = "boolean" THEN u = v ELSE py_eq(u, v)

ValidationError(path, validator, message) ==
    [path |-> path, validator |-> validator, message |-> message]

RECURSIVE FlattenSeq(_)
FlattenSeq(qq) == IF qq = <<>> THEN <<>> ELSE Head(qq) \o FlattenSeq(Tail(qq))

(* Draft7Validator(schema).iter_errors(instance): the errors in the order  *)
(* of the schema's keywords, descending into properties and items          *)
RECURSIVE iter_errors(_, _, _)
iter_errors(v, schema, path) ==
    LET typeErrs ==
            IF HasKey(schema, "type") /\ ~is_type(v, schema.type)
              THEN <<ValidationError(path, "type",
                        <<py_str(v), " is not of type ", schema.type>>)>>
              ELSE <<>>
        propErrs ==
            IF HasKey(schema, "properties") /\ v.t = "object"
              THEN FlattenSeq([i \in 1..Len(schema.order) |->
                      IF schema.order[i] \in DOMAIN v.d
                        THEN iter_errors(v.d[schema.order[i]],
                                         schema.properties[schema.order[i]],
                                         Append(path, schema.order[i]))
                        ELSE <<>>])
              ELSE <<>>
        itemErrs ==
            IF HasKey(schema, "items") /\ v.t = "array"
              THEN FlattenSeq([i \in 1..Len(v.a) |->
                      iter_errors(v.a[i], schema.items, Append(path, "[i]"))])
              ELSE <<>>
        reqErrs ==
            IF HasKey(schema, "required") /\ v.t = "object"
              THEN FlattenSeq([i \in 1..Len(schema.required) |->
                      IF schema.required[i] \in DOMAIN v.d THEN <<>>
                      ELSE <<ValidationError(path, "required",
                                <<schema.required[i], " is a required property">>)>>])
              ELSE <<>>
        listErrs ==
            IF HasKey(schema, "type_list")
                 /\ \A i \in 1..Len(schema.type_list) : ~is_type(v, schema.type_list[i])
              THEN <<ValidationError(path, "type",
                        <<py_str(v), " is not of type ">> \o schema.type_list)>>
              ELSE <<>>
        enumErrs ==
            IF HasKey(schema, "enum")
                 /\ \A i \in 1..Len(schema.enum) : ~json_equal(v, schema.enum[i])
              THEN <<ValidationError(path, "enum", <<py_str(v), " is not one of the enum">>)>>
              ELSE <<>>
        minErrs ==
            IF HasKey(schema, "minimum") /\ is_type(v, "number")
                 /\ num_value(v) < num_value(schema.minimum)
              THEN <<ValidationError(path, "minimum",
                        <<py_str(v), " is less than the minimum of ", py_str(schema.minimum)>>)>>
              ELSE <<>>
        maxErrs ==
            IF HasKey(schema, "maximum") /\ is_type(v, "number")
                 /\ num_value(v) > num_value(schema.maximum)
              THEN <<ValidationError(path, "maximum",
                        <<py_str(v), " is greater than the maximum of ", py_str(schema.maximum)>>)>>
              ELSE <<>>
        minItemsErrs ==
            IF HasKey(schema, "minItems") /\ v.t = "array" /\ Len(v.a) < schema.minItems
              THEN <<ValidationError(path, "minItems", <<py_str(v), " is too short">>)>>
              ELSE <<>>
    IN  typeErrs \o listErrs \o propErrs \o itemErrs \o reqErrs
        \o enumErrs \o minErrs \o maxErrs \o minItemsErrs

(* jsonschema.exceptions.best_match: the error highest in the instance,    *)
(* the first of them in iteration order                                    *)
best_match(errors) ==
    LET shortest == CHOOSE i \in 1..Len(errors) :
            /\ \A j \in 1..Len(errors) : Len(errors[i].path) <= Len(errors[j].path)
            /\ \A j \in 1..(i - 1) : Len(errors[j].path) > Len(errors[i].path)
    IN  errors[shortest]

(* " -> ".join(str(p) for p in path) if path else "root" *)
error_path(path) == IF path = <<>> THEN <<"root">> ELSE path

(* SchemaValidator.validate: (is_valid, error_msg); a message is a         *)
(* sequence of text pieces, None is [null |-> TRUE]                        *)
NoMessage == [null |-> TRUE, text |-> <<>>]
Message(text) == [null |-> FALSE, text |-> text]

(* jsonschema.validate first checks the schema against the Draft 7         *)
(* metaschema (cls.check_schema): a `type` must be one of the seven type   *)
(* names, in the schema and in every subschema; keywords the metaschema    *)
(* does not know are allowed                                               *)
simpleTypes == {"array", "boolean", "integer", "null", "number", "object", "string"}

RECURSIVE check_schema(_)
check_schema(schema) ==
    /\ HasKey(schema, "type") => schema.type \in simpleTypes
    /\ HasKey(schema, "type_list") => Range(schema.type_list) \subseteq simpleTypes
    /\ HasKey(schema, "properties") =>
          \A key \in DOMAIN schema.properties : check_schema(schema.properties[key])
    /\ HasKey(schema, "items") => check_schema(schema.items)

(* Draft7Validator(schema).iter_errors(instance) does not check the        *)
(* schema: the type keyword raises UnknownType for a name that is no type  *)
UnknownType(v, schema) == HasKey(schema, "type") /\ schema.type \notin simpleTypes

validate(data, schema) ==
    IF ~check_schema(schema)
      THEN [is_valid |-> FALSE,
            error_msg |-> Message(<<"Invalid schema: ", "'", schema.type,
                                    "' is not valid under any of the given schemas">>)]
    ELSE
    LET errors == iter_errors(data, schema, <<>>)
    IN  IF errors = <<>>
          THEN [is_valid |-> TRUE, error_msg |-> NoMessage]
          ELSE LET e == best_match(errors)
               IN  [is_valid |-> FALSE,
                    error_msg |-> Message(<<"Validation error at '">> \o error_path(e.path)
                                          \o <<"': ">> \o e.message)]

(* SchemaValidator.validate_with_details(...)["errors"] *)
validate_with_details(data, schema) ==
    LET errors == iter_errors(data, schema, <<>>)
    IN  [i \in 1..Len(errors) |->
            [path |-> error_path(errors[i].path), message |-> errors[i].message,
             validator |-> errors[i].validator]]

(* SchemaValidator.create_error_feedback: the lines of the feedback, each  *)
(* line a sequence of text pieces (the caller joins them with "\n")        *)
create_error_feedback(data, schema, validation_errors) ==
    << <<"The previous response had validation errors:">>, <<>> >>
    \o [i \in 1..Len(validation_errors) |->
          <<"- Field '">> \o validation_errors[i].path \o <<"': ">>
          \o validation_errors[i].message]
    \o << <<>>,
          <<"Please provide a corrected response that matches the schema exactly.">>,
          <<"Pay attention to data types (string, number, array, object, boolean, null).">> >>

-----------------------------------------------------------------------------
(* The tool functions classify_by_llm, tag_by_llm and extract_by_llm.      *)

(* Python's `in` on strings and json.loads, on the replies of the model    *)
py_contains(hay, needle) ==
    \/ hay = needle
    \/ hay = "backend and frontend" /\ needle \in {"backend", "frontend"}
    \/ hay = "api, backend, ux" /\ needle \in {"api", "backend"}
    \/ hay = "author: wade" /\ needle = "author"

json_loads(x) ==
    CASE x = "[\"backend\", \"Frontend\", \"ux\"]"
            -> Parsed(JArr(<<JStr("backend"), JStr("Frontend"), JStr("ux")>>))
      [] x = "[\"api\", 7]" -> Parsed(JArr(<<JStr("api"), JInt(7)>>))
      [] x = "{\"tags\": []}" -> Parsed(JObj([tags |-> JArr(<<>>)]))
      [] x = "{\"author\": \"Wade\", \"date\": null}"
            -> Parsed(JObj([author |-> JStr("Wade"), date |-> JNull]))
      [] x = "[]" -> Parsed(JArr(<<>>))
      [] x = "[\"api\", \"api\", \"api\", \"api\", \"api\", \"api\", \"api\", \"api\", \"api\", \"api\", \"api\"]"
            -> Parsed(JArr([i \in 1..11 |-> JStr("api")]))
      [] OTHER -> NoParse


(* output records: {"id", "result"} has no "error" key, read as None       *)
result_record(id, result) == [id |-> id, result |-> result, error |-> NoMessage]
warning_record(id, result, err) ==
    [id |-> id, result |-> result,
     error |-> Message(<<"Schema validation warning: ">> \o err.text)]

(* `except Exception as e:` of the item loop: result None, error str(e)    *)
error_record_no_error(id, msg) == [id |-> id, result |-> JNull, error |-> NoMessage]
error_record(id, msg) == [id |-> id, result |-> JNull, error |-> Message(msg)]

(* what processing one reply gives: a result value, or an exception        *)
Ok(v) == [raised |-> FALSE, value |-> v, msg |-> <<>>]
Exc(m) == [raised |-> TRUE, value |-> JNull, msg |-> m]

NoneHasNoStrip == <<"'NoneType' object has no attribute 'strip'">>
HasNoLower == <<"object has no attribute 'lower'">>

(* str(item["data"]) *)
item_text(item) ==
    IF item.data.whole /\ item.data.raw.isdict THEN "{...}" ELSE item.data.raw.val

(* classify_by_llm, lines 107-112: `matched`, the first category equal to  *)
(* the reply ignoring case, or None                                        *)
case_insensitive_match_never(category, cats) == None
case_insensitive_match(category, cats) ==
    LET hits == {i \in DOMAIN cats : py_lower(cats[i]) = py_lower(category)}
        first == CHOOSE i \in hits : \A j \in hits : i <= j
    IN  IF hits = {} THEN None ELSE Some(cats[first])

(* lines 116-122: the category of a reply that matched nothing             *)
no_match_category_fallback_first(a) ==
    IF ~a.fallback_category.null /\ a.fallback_category.v # ""
      THEN JStr(a.fallback_category.v)
    ELSE IF a.allow_none THEN JNull
    ELSE JStr(a.categories[1])

no_match_category(a) ==
    IF a.allow_none THEN JNull
    ELSE IF ~a.fallback_category.null /\ a.fallback_category.v # ""
      THEN JStr(a.fallback_category.v)
    ELSE JStr(a.categories[1])

(* classify_by_llm, lines 101-133: parse and validate the reply            *)
classify_item(response, a) ==
    IF response.t # "string" THEN Exc(NoneHasNoStrip)
    ELSE
    LET category == py_strip(response.s)
        matched == case_insensitive_match(category, a.categories)
        final ==
            IF category \in Range(a.categories) THEN JStr(category)
            ELSE IF ~matched.null /\ matched.v # "" THEN JStr(matched.v)
            ELSE no_match_category(a)
    IN  Ok(IF a.include_scores
             THEN JObj([category |-> final, score |-> JNum(95)])
             ELSE final)

(* tag_by_llm, lines 111-130: keep the reply's tags that are in the list   *)
(* lines 123-130, one element of the reply: what it adds to               *)
(* validated_tags (one tag or nothing), or the exception of tag.lower()    *)
validated_tag_keep_unmatched(tag, tags) ==
    IF tag.t # "string" THEN Exc(HasNoLower) ELSE Ok(JArr(<<tag>>))

validated_tag(tag, tags) ==
    LET hits == {i \in DOMAIN tags : py_lower(tags[i]) = py_lower(tag.s)}
        first == CHOOSE i \in hits : \A j \in hits : i <= j
    IN  IF tag.t = "string" /\ tag.s \in Range(tags) THEN Ok(JArr(<<tag>>))
        ELSE IF tag.t # "string" THEN Exc(HasNoLower)
        ELSE IF hits # {} THEN Ok(JArr(<<JStr(tags[first])>>))
        ELSE Ok(JArr(<<>>))

RECURSIVE validated_tags(_, _, _, _)
validated_tags(result_tags, k, tags, acc) ==
    IF k > Len(result_tags) THEN Ok(JArr(acc))
    ELSE LET one == validated_tag(result_tags[k], tags)
         IN  IF one.raised THEN one
             ELSE validated_tags(result_tags, k + 1, tags, acc \o one.value.a)

RECURSIVE SelectSeq2(_, _)
SelectSeq2(q, S) ==
    IF q = <<>> THEN <<>>
    ELSE IF Head(q) \in S THEN <<Head(q)>> \o SelectSeq2(Tail(q), S)
    ELSE SelectSeq2(Tail(q), S)

(* tag_by_llm, lines 111-144 *)
tag_item(response, a) ==
    IF response.t # "string" THEN Exc(NoneHasNoStrip)
    ELSE
    LET parsed == json_loads(py_strip(response.s))
        mentioned == {t \in Range(a.tags) : py_contains(py_lower(response.s), py_lower(t))}
        fallback == SelectSeq2(a.tags, mentioned)
        result_tags ==
            IF parsed.ok
              THEN IF parsed.value.t = "array" THEN parsed.value.a ELSE <<>>
              ELSE [i \in 1..Len(fallback) |-> JStr(fallback[i])]
        validated == validated_tags(result_tags, 1, a.tags, <<>>)
        limited ==
            IF ~a.max_tags.null /\ a.max_tags.n # 0 /\ Len(validated.value.a) > a.max_tags.n
              THEN SubSeq(validated.value.a, 1, a.max_tags.n)
              ELSE validated.value.a
    IN  IF validated.raised THEN validated
        ELSE IF a.include_scores
          THEN Ok(JArr([i \in 1..Len(limited) |->
                      JObj([tag |-> limited[i], score |-> JNum(90 - (i - 1) * 10)])]))
          ELSE Ok(JArr(limited))

(* extract_by_llm, lines 182-204: the simple field extraction mode         *)
extract_fields_item(response, a) ==
    IF response.t # "string" THEN Exc(NoneHasNoStrip)
    ELSE
    LET parsed == json_loads(py_strip(response.s))
        found == {f \in Range(a.fields) : py_contains(py_lower(response.s), py_lower(f))}
    IN  IF parsed.ok THEN Ok(parsed.value)
        ELSE Ok(JObj([f \in found |-> JNull]))

(* The operation strategies of tools/operations.                           *)

(* SingleChoiceOperation._match_choice: the first choice equal to the      *)
(* response ignoring case, else the response itself                        *)
match_choice_first_choice(response, choices) ==
    LET hits == {i \in DOMAIN choices : py_lower(choices[i]) = py_lower(response)}
        first == CHOOSE i \in hits : \A j \in hits : i <= j
    IN  IF hits # {} THEN choices[first] ELSE choices[1]

match_choice(response, choices) ==
    LET hits == {i \in DOMAIN choices : py_lower(choices[i]) = py_lower(response)}
        first == CHOOSE i \in hits : \A j \in hits : i <= j
    IN  IF hits # {} THEN choices[first] ELSE response

(* SingleChoiceOperation.execute, lines 67-71 *)
single_choice_result(response, choices) ==
    LET result == py_strip(response)
    IN  IF result \in Range(choices) THEN result ELSE match_choice(result, choices)

(* response.split(","): the comma-separated reply of the model; the pieces *)
(* of its other replies equal no choice and stand as one piece             *)
py_split_comma(x) ==
    CASE x = "api, Backend, ux" -> <<"api", " Backend", " ux">>
      [] OTHER -> <<x>>

(* ",".join(labels) *)
RECURSIVE py_join(_, _)
py_join(sep, q) ==
    IF q = <<>> THEN ""
    ELSE IF Len(q) = 1 THEN q[1]
    ELSE q[1] \o sep \o py_join(sep, Tail(q))

(* MultiLabelOperation._parse_labels, lines 96-111 *)
RECURSIVE matched_labels(_, _, _)
matched_labels(labels, k, valid_choices) ==
    IF k > Len(labels) THEN <<>>
    ELSE LET hits == {i \in DOMAIN valid_choices :
                         py_lower(valid_choices[i]) = py_lower(py_strip(labels[k]))}
             first == CHOOSE i \in hits : \A j \in hits : i <= j
         IN  (IF hits # {} THEN <<valid_choices[first]>> ELSE <<>>)
             \o matched_labels(labels, k + 1, valid_choices)

parse_labels(response, valid_choices, max_tags) ==
    LET matched == matched_labels(py_split_comma(response), 1, valid_choices)
    IN  IF ~max_tags.null /\ max_tags.n # 0 /\ Len(matched) > max_tags.n
          THEN SubSeq(matched, 1, max_tags.n)
          ELSE matched

(* MultiLabelOperation.execute, lines 76-79: the record's result           *)
multi_label_result(response, valid_choices, max_tags) ==
    py_join(",", parse_labels(response, valid_choices, max_tags))

-----------------------------------------------------------------------------
(* extract_by_llm with response_format: the retry loop, lines 110-166      *)

(* `if last_error:` -- None and the empty string are false                 *)
truthy(m) == ~m.null /\ m.text # <<>>

(* f"Extract information from the following text:\n\n{text}", as lines     *)
initial_prompt(item) ==
    << <<"Extract information from the following text:">>, <<>>, <<item_text(item)>> >>

(* f"{user_prompt}\n\n{error_feedback}" *)
retry_prompt_replace(prompt, error_feedback) == error_feedback
retry_prompt(prompt, error_feedback) == prompt \o << <<>> >> \o error_feedback

(* `for attempt in range(max_retries + 1)`: is there an iteration after    *)
(* this one                                                                *)
has_next_attempt_one_more(att, max_retries) == att <= max_retries
has_next_attempt(att, max_retries) == att < max_retries

(* the except clause of the loop: `if attempt >= max_retries: raise`       *)
reraise_always(att, max_retries) == TRUE
reraise(att, max_retries) == att >= max_retries

(* what structured_output can do: return a JSON value or raise             *)
BackendValues ==
    {JObj([authors |-> JArr(<<JStr("Wade")>>)]),
     JObj([authors |-> JStr("Wade")]),
     JObj([authors |-> JArr(<<JStr("Wade")>>), year |-> JStr("2025")]),
     JObj([year |-> JStr("n/a")]),
     JArr(<<>>)}
BackendErrors == {<<"Request timed out.">>, <<>>}

Reply(v) == [raised |-> FALSE, value |-> v, msg |-> <<>>]
Failure(m) == [raised |-> TRUE, value |-> JNull, msg |-> m]

(* the schema of the call: response_format, or a response_format that is  *)
(* no valid JSON Schema                                                    *)
invalid_response_format == [type |-> "objekt"]
schema_of(a) == IF a.valid_schema THEN response_format ELSE invalid_response_format

(* The body of one iteration of the retry loop, from the reply of the      *)
(* awaited call.  st = [attempt, user_prompt, result_data, last_error];    *)
(* exit is "break", "raise" (the exception leaves the loop) or "none".     *)
attempt_outcome(st, a, schema, coerced, checked) ==
    IF checked.is_valid
      THEN [result_data |-> coerced,
            user_prompt |-> st.user_prompt,
            last_error |-> st.last_error,
            exit |-> "break"]
    ELSE IF st.attempt < a.max_retries /\ UnknownType(coerced, schema)
      \* validate_with_details raises inside the try: the except
      \* clause takes it, and attempt < max_retries
      THEN [result_data |-> coerced,
            user_prompt |-> st.user_prompt,
            last_error |-> Message(<<"Unknown type '", schema.type, "'">>),
            exit |-> "none"]
    ELSE IF st.attempt < a.max_retries
      THEN [result_data |-> coerced,
            user_prompt |-> retry_prompt(st.user_prompt,
                               create_error_feedback(coerced, schema,
                                   validate_with_details(coerced, schema))),
            last_error |-> checked.error_msg,
            exit |-> "none"]
    ELSE [result_data |-> coerced,
          user_prompt |-> st.user_prompt,
          last_error |-> checked.error_msg,
          exit |-> "none"]

(* lines 130-134: the coerced reply is the value that is validated *)
validated_attempt(st, a, schema, coerced) ==
    attempt_outcome(st, a, schema, coerced, validate(coerced, schema))

(* lines 130-131 *)
coerce_reply(reply, a) ==
    IF a.enable_coercion /\ reply.value.t = "object"
      THEN coerce_object_to_schema(reply.value, schema_of(a))
      ELSE reply.value

retry_body(st, reply, a) ==
    IF reply.raised
      THEN [result_data |-> st.result_data,
            user_prompt |-> st.user_prompt,
            last_error |-> Message(reply.msg),
            exit |-> IF reraise(st.attempt, a.max_retries) THEN "raise" ELSE "none"]
      ELSE validated_attempt(st, a, schema_of(a), coerce_reply(reply, a))

(* the iteration and the step of the for loop: next is "retry" (a further  *)
(* call is made), "exhausted" (the range ran out), "break" or "raise"      *)
loop_next(st, a, b) ==
    LET more == b.exit = "none" /\ has_next_attempt(st.attempt, a.max_retries)
    IN  [attempt |-> IF more THEN st.attempt + 1 ELSE st.attempt,
         user_prompt |-> b.user_prompt,
         result_data |-> b.result_data,
         last_error |-> b.last_error,
         next |-> IF b.exit # "none" THEN b.exit
                  ELSE IF more THEN "retry" ELSE "exhausted"]

retry_iteration(st, reply, a) == loop_next(st, a, retry_body(st, reply, a))

(* lines 158-166 and 206: the record appended after the loop               *)
after_loop_record_discard(item, data, err) ==
    IF truthy(err) THEN warning_record(item.id, JNull, err)
    ELSE result_record(item.id, data)

after_loop_record_unflagged(item, data, err) == result_record(item.id, data)

after_loop_record(item, data, err) ==
    IF truthy(err) THEN warning_record(item.id, data, err)
    ELSE result_record(item.id, data)

-----------------------------------------------------------------------------
(* The tool calls as state machines: one step per resumption of the        *)
(* coroutine, from one awaited backend call to the next (or the return).   *)

categories == <<"tech", "sports">>
tags == <<"backend", "frontend", "api">>
fields == <<"author", "date">>

NoInt == [null |-> TRUE, n |-> 0]
SomeInt(i) == [null |-> FALSE, n |-> i]

DefaultArgs ==
    [categories |-> categories, tags |-> tags, fields |-> fields,
     structured |-> FALSE, max_retries |-> 2, enable_coercion |-> TRUE,
     allow_none |-> FALSE, fallback_category |-> None, include_scores |-> FALSE,
     max_tags |-> NoInt, input_is_list |-> TRUE, valid_schema |-> TRUE]

ClassifyArgs ==
    {[DefaultArgs EXCEPT !.allow_none = an, !.fallback_category = fb, !.include_scores = sc] :
        an \in BOOLEAN, fb \in {None, Some("misc")}, sc \in BOOLEAN}
TagArgs ==
    {[DefaultArgs EXCEPT !.max_tags = mt, !.include_scores = sc] :
        mt \in {NoInt, SomeInt(0), SomeInt(1)}, sc \in BOOLEAN}
ExtractArgs ==
    {DefaultArgs}
    \cup {[DefaultArgs EXCEPT !.structured = TRUE, !.max_retries = r, !.enable_coercion = c] :
            r \in 0..MaxRetries, c \in BOOLEAN}
    \cup {[DefaultArgs EXCEPT !.structured = TRUE, !.max_retries = r, !.valid_schema = FALSE] :
            r \in 0..1}

(* calls the parameter checks reject: too few categories, no tag, neither  *)
(* fields nor response_format; and calls whose input is no list            *)
BadClassifyArgs ==
    {[DefaultArgs EXCEPT !.categories = c] : c \in {<<>>, <<"tech">>}}
BadTagArgs == {[DefaultArgs EXCEPT !.tags = <<>>]}
BadExtractArgs == {[DefaultArgs EXCEPT !.fields = <<>>]}
NotListArgs ==
    {[DefaultArgs EXCEPT !.input_is_list = FALSE],
     [DefaultArgs EXCEPT !.input_is_list = FALSE, !.structured = TRUE]}

(* lines 49-51 of classify_by_llm, 58-60 of tag_by_llm and 62-70 of        *)
(* extract_by_llm: the checks that raise ValueError                        *)
parameters_valid_one_category(t, a) ==
    CASE t = "classify" -> Len(a.categories) >= 1
      [] t = "tag" -> Len(a.tags) >= 1
      [] t = "extract" -> ~(a.fields = <<>> /\ ~a.structured)

parameters_valid(t, a) ==
    CASE t = "classify" -> Len(a.categories) >= 2
      [] t = "tag" -> Len(a.tags) >= 1
      [] t = "extract" -> ~(a.fields = <<>> /\ ~a.structured)

(* the input lists: bare texts (no id, so auto-numbered) alternating with  *)
(* a dict that brings its own id and a data key                            *)
ToolInput(n) ==
    [k \in 1..n |-> IF k % 2 = 1 THEN RawItem(FALSE, FALSE, NoId, FALSE, "text")
                                 ELSE RawItem(TRUE, TRUE, StrId("a1"), TRUE, "text")]

(* replies of llm_client.chat: the message content, a string or None       *)
ClassifyReplies == {JStr("tech"), JStr("Tech"), JStr(" sports\n"), JStr("weather"), JNull}
TagReplies == {JStr("[\"backend\", \"Frontend\", \"ux\"]"), JStr("[\"api\", 7]"),
               JStr("{\"tags\": []}"), JStr("backend and FRONTEND"), JNull,
               JStr("api, Backend, ux"),
               JStr("[\"api\", \"api\", \"api\", \"api\", \"api\", \"api\", \"api\", \"api\", \"api\", \"api\", \"api\"]")}
FieldsReplies == {JStr("{\"author\": \"Wade\", \"date\": null}"), JStr("Author: Wade"),
                  JStr("[]"), JNull}

(* a call of one of the three tools; tool_input is the list, and is left  *)
(* empty when the caller's input is no list                                *)
InitTools ==
    /\ tool \in {"classify", "tag", "extract"}
    /\ args \in (CASE tool = "classify" -> ClassifyArgs \cup BadClassifyArgs
       [] tool = "tag" -> TagArgs \cup BadTagArgs
       [] tool = "extract" -> ExtractArgs \cup BadExtractArgs) \cup NotListArgs
    /\ tool_input \in {ToolInput(n) : n \in 0..(IF args.input_is_list THEN MaxToolItems ELSE 0)}
    /\ tool_items = <<>>
    /\ cur = 0
    /\ attempt = 0
    /\ user_prompt = <<>>
    /\ result_data = JNull
    /\ last_error = NoMessage
    /\ tool_results = <<>>
    /\ hist = <<>>
    /\ hist_item = 0
    /\ raised_items = {}
    /\ tpc = "start"
    \* the other machines are idle
    /\ input_list = <<>>
    /\ normalized = <<>>
    /\ auto_id_counter = 0
    /\ npc = "idle"
    /\ items = <<>>
    /\ max_concurrent = 0
    /\ semaphore = 0
    /\ task = <<>>
    /\ outcome = <<>>
    /\ task_result = <<>>
    /\ finish_order = <<>>
    /\ results = <<>>
    /\ metadata = [total_items |-> 0, successful |-> 0, failed |-> 0]
    /\ bpc = "idle"
    /\ resolve_prompt = <<>>
    /\ resolve_inputs = <<>>
    /\ resolve_default = <<>>
    /\ field_refs = <<>>
    /\ field_i = 0
    /\ resolved = <<>>
    /\ rpc = "idle"
    /\ dir_exists = FALSE
    /\ dir_files = <<>>
    /\ loader = "none"
    /\ templates = <<>>
    /\ registry = "none"
    /\ executors = <<>>
    /\ op = "none"
    /\ load_files = <<>>
    /\ load_i = 0
    /\ pre_templates = <<>>
    /\ pre_executors = <<>>
    /\ op_result = "none"
    /\ lpc = "off"
    /\ co_data = JNull
    /\ co_schema = EmptyDict
    /\ co_once = JNull
    /\ co_twice = JNull
    /\ cpc = "idle"
    /\ strategy = "none"
    /\ strat_params = EmptyDict
    /\ strat_items = <<>>
    /\ strat_replies = <<>>
    /\ strat_results = <<>>
    /\ strat_error = NoMessage
    /\ spc = "idle"

(* the top of the body of `for item in normalized:` up to the awaited call *)
(* (user_prompt is followed for the retry loop only: the prompt of the     *)
(* other calls is built once per item and never changes)                   *)
BeginItem(k, its) ==
    /\ cur' = k
    /\ attempt' = 0
    /\ user_prompt' = IF tool = "extract" /\ args.structured
                        THEN initial_prompt(its[k]) ELSE <<>>
    /\ result_data' = JNull
    /\ last_error' = NoMessage
    /\ tpc' = "await"

(* the call: the parameter checks, then InputNormalizer.normalize (which   *)
(* raises TypeError when the input is no list), then the loop starts       *)
ToolCall ==
    /\ tpc = "start"
    /\ IF ~parameters_valid(tool, args) \/ ~args.input_is_list
         THEN /\ tpc' = "raised"
              /\ UNCHANGED <<tool_items, cur, attempt, user_prompt, result_data, last_error>>
         ELSE /\ tool_items' = normalize(tool_input).out
              /\ IF Len(tool_input) = 0
                   THEN /\ tpc' = "returned"
                        /\ UNCHANGED <<cur, attempt, user_prompt, result_data, last_error>>
                   ELSE BeginItem(1, normalize(tool_input).out)
    /\ UNCHANGED <<tool, args, tool_input, tool_results, hist, hist_item, raised_items,
                   normVars, batchVars, resolveVars, loaderVars, coerceVars, stratVars>>

(* the item's record is appended; the loop goes to the next item or the    *)
(* function returns the results                                            *)
FinishItem(rec, raisedOut) ==
    /\ tool_results' = Append(tool_results, rec)
    /\ raised_items' = IF raisedOut THEN raised_items \cup {cur} ELSE raised_items
    /\ IF cur < Len(tool_items)
         THEN BeginItem(cur + 1, tool_items)
         ELSE /\ tpc' = "returned"
              /\ UNCHANGED <<cur, attempt, user_prompt, result_data, last_error>>

(* one backend call: the attempt, the prompt sent, what came back (reply,  *)
(* JNull when the call raised), how it ended, the value made of the reply  *)
(* and the message of the exception                                        *)
HistEntry(att, prompt, reply, kind, result, msg) ==
    [attempt |-> att, prompt |-> prompt, reply |-> reply, kind |-> kind,
     result |-> result, msg |-> msg]

Record(entry) ==
    /\ hist' = IF hist_item = cur THEN Append(hist, entry) ELSE <<entry>>
    /\ hist_item' = cur

(* llm_client.chat returns or raises (classify, tag, extract with fields): *)
(* the reply is parsed and the item's record appended                      *)
item_result(t, response, a) ==
    CASE t = "classify" -> classify_item(response, a)
      [] t = "tag" -> tag_item(response, a)
      [] t = "extract" -> extract_fields_item(response, a)

ChatTool == tool \in {"classify", "tag"} \/ (tool = "extract" /\ ~args.structured)

ChatReplies ==
    CASE tool = "classify" -> ClassifyReplies
      [] tool = "tag" -> TagReplies
      [] OTHER -> FieldsReplies

ChatReturns ==
    /\ tpc = "await" /\ ChatTool
    /\ \E response \in ChatReplies :
          LET r == item_result(tool, response, args)
          IN  /\ Record(HistEntry(0, user_prompt, response,
                                  IF r.raised THEN "parse_error" ELSE "reply",
                                  r.value, r.msg))
              /\ FinishItem(IF r.raised THEN error_record(tool_items[cur].id, r.msg)
                            ELSE result_record(tool_items[cur].id, r.value), r.raised)
    /\ UNCHANGED <<tool, args, tool_input, tool_items, normVars, batchVars, resolveVars, loaderVars, coerceVars, stratVars>>

ChatRaises ==
    /\ tpc = "await" /\ ChatTool
    /\ \E m \in BackendErrors :
          /\ Record(HistEntry(0, user_prompt, JNull, "raise", JNull, m))
          /\ FinishItem(error_record(tool_items[cur].id, m), TRUE)
    /\ UNCHANGED <<tool, args, tool_input, tool_items, normVars, batchVars, resolveVars, loaderVars, coerceVars, stratVars>>

(* llm_client.structured_output returns or raises: one iteration of the    *)
(* retry loop, then a further call, or the item's record                   *)
StructuredApply(reply, nx, kind) ==
    /\ Record(HistEntry(attempt, user_prompt, reply.value, kind,
                        IF reply.raised THEN JNull ELSE nx.result_data, reply.msg))
    /\ IF nx.next = "retry"
         THEN /\ attempt' = nx.attempt
              /\ user_prompt' = nx.user_prompt
              /\ result_data' = nx.result_data
              /\ last_error' = nx.last_error
              /\ UNCHANGED <<cur, tool_results, raised_items, tpc>>
         ELSE IF nx.next = "raise"
           THEN FinishItem(error_record(tool_items[cur].id, reply.msg), TRUE)
           ELSE FinishItem(after_loop_record(tool_items[cur], nx.result_data,
                                             nx.last_error), FALSE)
    /\ UNCHANGED <<tool, args, tool_input, tool_items, normVars, batchVars, resolveVars, loaderVars, coerceVars, stratVars>>

attempt_kind(reply, nx) ==
    IF reply.raised THEN "raise"
    ELSE IF ~check_schema(schema_of(args)) THEN "invalid_schema"
    ELSE IF nx.next = "break" THEN "valid" ELSE "invalid"

loop_state == [attempt |-> attempt, user_prompt |-> user_prompt,
               result_data |-> result_data, last_error |-> last_error]

StructuredStep(reply) ==
    \E nx \in {retry_iteration(loop_state, reply, args)} :
        StructuredApply(reply, nx, attempt_kind(reply, nx))

StructuredReturns ==
    /\ tpc = "await" /\ tool = "extract" /\ args.structured
    /\ \E v \in BackendValues : StructuredStep(Reply(v))

StructuredRaises ==
    /\ tpc = "await" /\ tool = "extract" /\ args.structured
    /\ \E m \in BackendErrors : StructuredStep(Failure(m))

-----------------------------------------------------------------------------
(* FieldResolver.  A text is a sequence of characters (one-character       *)
(* strings).  FIELD_REFERENCE_PATTERN is \{\$(\w+)\}.                      *)

MaxPieces == 3

(* the characters \w matches, among those of the model's texts *)
WordChars == {"a", "b", "x", "v", "7"}

(* texts the prompts are put together from: two references, a word, an     *)
(* opening "{$" with no name, a closing brace                              *)
PromptPieces == { <<"{", "$", "a", "}">>, <<"{", "$", "b", "}">>, <<"x">>,
                  <<"{", "$">>, <<"}">> }

RECURSIVE concat(_)
concat(pieces) ==
    IF pieces = <<>> THEN <<>> ELSE Head(pieces) \o concat(Tail(pieces))

(* the values of the inputs dict: None, strings, an int *)
PyNone == [t |-> "none", s |-> <<>>, n |-> 0]
PyStr(x) == [t |-> "str", s |-> x, n |-> 0]
PyInt(k) == [t |-> "int", s |-> <<>>, n |-> k]
FieldValues == { PyNone, PyStr(<<>>), PyStr(<<"v">>), PyStr(<<"{">>),
                 PyStr(<<"{", "$", "a", "}">>), PyStr(<<"{", "$", "b", "}">>),
                 PyInt(7) }
FieldNames == { <<"a">>, <<"b">> }

(* str(value) of a field value *)
str_of(value) ==
    CASE value.t = "str" -> value.s
      [] value.t = "int" -> IF value.n = 7 THEN <<"7">> ELSE <<"0">>
      [] OTHER -> <<"N", "o", "n", "e">>

(* the last index of the longest run of \w characters starting at j        *)
(* (j - 1 when there is none)                                              *)
RECURSIVE word_end(_, _)
word_end(text, j) ==
    IF j <= Len(text) /\ text[j] \in WordChars THEN word_end(text, j + 1) ELSE j - 1

(* the pattern matched at position i: the index of its "}", or 0 *)
match_end(text, i) ==
    IF i + 1 <= Len(text) /\ text[i] = "{" /\ text[i + 1] = "$"
    THEN LET e == word_end(text, i + 2)
         IN IF e >= i + 2 /\ e + 1 <= Len(text) /\ text[e + 1] = "}" THEN e + 1 ELSE 0
    ELSE 0

(* re.findall: the names of the matches, left to right, not overlapping *)
RECURSIVE findall(_, _)
findall(text, i) ==
    IF i > Len(text) THEN <<>>
    ELSE LET e == match_end(text, i)
         IN IF e # 0 THEN <<SubSeq(text, i + 2, e - 1)>> \o findall(text, e + 1)
            ELSE findall(text, i + 1)

(* "Remove duplicates while preserving order" *)
RECURSIVE remove_duplicates(_, _)
remove_duplicates(matches, result) ==
    IF matches = <<>> THEN result
    ELSE remove_duplicates(Tail(matches),
             IF \E k \in DOMAIN result : result[k] = Head(matches)
             THEN result ELSE Append(result, Head(matches)))

extract_field_references(text) ==
    IF text = <<>> THEN <<>> ELSE remove_duplicates(findall(text, 1), <<>>)

(* f"{{${field_name}}}" *)
placeholder(field_name) == <<"{", "$">> \o field_name \o <<"}">>

starts_with(text, i, old) ==
    /\ i + Len(old) - 1 <= Len(text)
    /\ SubSeq(text, i, i + Len(old) - 1) = old

(* text.replace(old, new), with count = 1 (the variant) and without *)
RECURSIVE py_replace_first(_, _, _, _)
py_replace_first(text, i, old, new) ==
    IF i > Len(text) THEN <<>>
    ELSE IF starts_with(text, i, old)
         THEN new \o SubSeq(text, i + Len(old), Len(text))
         ELSE <<text[i]>> \o py_replace_first(text, i + 1, old, new)

(* str.replace(old, new) from position i on: every occurrence, left to     *)
(* right, not overlapping (old is never empty here)                        *)
RECURSIVE py_replace(_, _, _, _)
py_replace(text, i, old, new) ==
    IF i > Len(text) THEN <<>>
    ELSE IF starts_with(text, i, old)
         THEN new \o py_replace(text, i + Len(old), old, new)
         ELSE <<text[i]>> \o py_replace(text, i + 1, old, new)

(* inputs.get(field_name, default), then the None test and str() *)
str_value(field_name, inp, dflt) ==
    LET value == IF field_name \in DOMAIN inp THEN inp[field_name] ELSE PyStr(dflt)
    IN IF value.t = "none" THEN dflt ELSE str_of(value)

(* the body of `for field_name in field_refs` *)
resolve_step(text, field_name, inp, dflt) ==
    py_replace(text, 1, placeholder(field_name), str_value(field_name, inp, dflt))

(* resolve up to the for loop *)
ResolveCall ==
    /\ rpc = "call"
    /\ IF resolve_prompt = <<>>
       THEN /\ rpc' = "returned"
            /\ resolved' = resolve_prompt
            /\ UNCHANGED <<field_refs, field_i>>
       ELSE /\ field_refs' = extract_field_references(resolve_prompt)
            /\ resolved' = resolve_prompt
            /\ field_i' = 1
            /\ rpc' = "loop"
    /\ UNCHANGED <<resolve_prompt, resolve_inputs, resolve_default,
                   normVars, batchVars, toolVars, loaderVars, coerceVars, stratVars>>

(* one iteration of the for loop *)
ResolveStep ==
    /\ rpc = "loop"
    /\ field_i <= Len(field_refs)
    /\ resolved' = resolve_step(resolved, field_refs[field_i], resolve_inputs,
                                resolve_default)
    /\ field_i' = field_i + 1
    /\ UNCHANGED <<resolve_prompt, resolve_inputs, resolve_default, field_refs, rpc,
                   normVars, batchVars, toolVars, loaderVars, coerceVars, stratVars>>

(* `return resolved` when the loop is over *)
ResolveReturn ==
    /\ rpc = "loop"
    /\ field_i > Len(field_refs)
    /\ rpc' = "returned"
    /\ UNCHANGED <<resolve_prompt, resolve_inputs, resolve_default, field_refs,
                   field_i, resolved, normVars, batchVars, toolVars, loaderVars, coerceVars, stratVars>>

-----------------------------------------------------------------------------
(* TemplateLoader and DynamicToolRegistry.  A descriptor is the content of *)
(* one *.json file of the templates directory:                             *)
(*   json: "object" | "array" (JSON, not an object) | "invalid" (not JSON) *)
(*   name, operation_type, description: the keys' values ("" / FALSE when  *)
(*   the key is missing); executor_config: whether the key is there with   *)
(*   its prompt_templates; outputSchema: "schema" (a JSON Schema) |        *)
(*   "bad_schema" (a dict that is no valid JSON Schema) | "string" |       *)
(*   "missing"; version: tells two descriptors of one tool apart.          *)

MaxFiles == 2

Descriptor(json, name, optype, description, executor_config, output, version) ==
    [json |-> json, name |-> name, operation_type |-> optype,
     description |-> description, executor_config |-> executor_config,
     outputSchema |-> output, version |-> version]

Descriptors ==
    { Descriptor("object", "classify_by_llm", "LLMTool", TRUE, TRUE, "schema", 1),
      Descriptor("object", "classify_by_llm", "LLMTool", TRUE, TRUE, "schema", 2),
      Descriptor("object", "tag_by_llm", "LLMTool", TRUE, TRUE, "schema", 1),
      Descriptor("invalid", "", "", FALSE, FALSE, "missing", 1),
      Descriptor("object", "tag_by_llm", "LLMTool", TRUE, TRUE, "missing", 2),
      Descriptor("object", "extract_by_llm", "LLMTool", TRUE, TRUE, "bad_schema", 1) }

(* json.load(f) *)
json_load(d) ==
    IF d.json = "invalid" THEN Exc(<<"JSONDecodeError">>) ELSE Ok(JNull)

(* convert_executor_config: prompt_templates and llm_config are filled in  *)
(* from executor_config when the data has one                              *)
convert_executor_config(d) ==
    [prompt_templates |-> d.executor_config, llm_config |-> d.executor_config]

(* LLMToolTemplate.model_validate(data): the required fields and their     *)
(* types; output_schema is Dict[str, Any], any dict passes                 *)
model_validate(d) ==
    LET data == convert_executor_config(d)
    IN IF /\ d.json = "object"
          /\ d.name # ""
          /\ d.operation_type = "LLMTool"
          /\ d.description
          /\ data.prompt_templates
          /\ data.llm_config
          /\ d.outputSchema \in {"schema", "bad_schema"}
       THEN Ok([kind |-> "LLMToolTemplate", tool_name |-> d.name,
                version |-> d.version, output_schema |-> d.outputSchema])
       ELSE Exc(<<"ValidationError">>)

(* d[key] = value on a dict kept in insertion order: a key already there   *)
(* keeps its place                                                         *)
dict_set(dict, value) ==
    IF \E k \in DOMAIN dict : dict[k].tool_name = value.tool_name
    THEN [k \in DOMAIN dict |->
             IF dict[k].tool_name = value.tool_name THEN value ELSE dict[k]]
    ELSE Append(dict, value)

dict_keys(dict) == {dict[k].tool_name : k \in DOMAIN dict}

(* the variant of the loop body whose except clause catches the JSON       *)
(* error only                                                              *)
load_step_catch_json_only(tpls, d) ==
    IF json_load(d).raised THEN [templates |-> tpls, raised |-> FALSE]
    ELSE IF model_validate(d).raised THEN [templates |-> tpls, raised |-> TRUE]
    ELSE [templates |-> dict_set(tpls, model_validate(d).value), raised |-> FALSE]

(* the body of `for json_file in glob("*.json")`: try json.load,           *)
(* model_validate, store under tool_name; except Exception: print a        *)
(* warning and go on.  raised: whether an exception leaves the body.       *)
load_step(tpls, d) ==
    IF json_load(d).raised \/ model_validate(d).raised
    THEN [templates |-> tpls, raised |-> FALSE]
    ELSE [templates |-> dict_set(tpls, model_validate(d).value), raised |-> FALSE]

(* LLMToolExecutor(template): template["tool_name"] needs a dict; an       *)
(* LLMToolTemplate is a pydantic BaseModel and is not subscriptable        *)
executor_init(template) ==
    IF template.kind = "dict"
    THEN Ok([kind |-> "LLMToolExecutor", tool_name |-> template.tool_name,
             version |-> template.version, output_schema |-> template.output_schema])
    ELSE Exc(<<"TypeError">>)

(* _initialize_executors: the loop over templates.items() from k on *)
RECURSIVE initialize_executors(_, _, _)
initialize_executors(execs, tpls, k) ==
    IF k > Len(tpls) THEN [executors |-> execs, raised |-> FALSE]
    ELSE IF executor_init(tpls[k]).raised
         THEN [executors |-> execs, raised |-> TRUE]
         ELSE initialize_executors(dict_set(execs, executor_init(tpls[k]).value),
                                   tpls, k + 1)

(* _load_all_templates up to its for loop, after `self._templates = {}`:   *)
(* FileNotFoundError when the directory is missing                         *)
StartLoad(call) ==
    /\ op' = call
    /\ pre_templates' = templates
    /\ pre_executors' = executors
    /\ templates' = <<>>
    /\ IF ~dir_exists
       THEN /\ op_result' = "FileNotFoundError"
            /\ lpc' = "idle"
            /\ load_files' = <<>>
            /\ load_i' = 0
       ELSE /\ op_result' = "none"
            /\ lpc' = "loading"
            /\ load_files' = dir_files
            /\ load_i' = 1
    /\ UNCHANGED <<dir_exists, dir_files, loader, registry, executors,
                   normVars, batchVars, toolVars, resolveVars, coerceVars, stratVars>>

(* get_template_loader() when there is no loader yet: TemplateLoader() *)
GetTemplateLoader ==
    /\ lpc = "idle" /\ loader = "none"
    /\ StartLoad("get_template_loader")

(* TemplateLoader.reload() *)
LoaderReload ==
    /\ lpc = "idle" /\ loader = "ready"
    /\ StartLoad("reload")

(* `self.executors = {}` and the call of _initialize_executors, next *)
StartExecutors ==
    /\ executors' = <<>>
    /\ lpc' = "executors"
    /\ op_result' = "none"

(* get_tool_registry() when there is no registry yet: DynamicToolRegistry() *)
GetToolRegistry ==
    /\ lpc = "idle" /\ registry = "none"
    /\ IF loader = "none"
       THEN StartLoad("get_tool_registry")
       ELSE /\ StartExecutors
            /\ op' = "get_tool_registry"
            /\ pre_templates' = templates
            /\ pre_executors' = executors
            /\ UNCHANGED <<dir_exists, dir_files, loader, templates, registry,
                           load_files, load_i,
                           normVars, batchVars, toolVars, resolveVars, coerceVars, stratVars>>

(* DynamicToolRegistry.reload_templates() *)
ReloadTemplates ==
    /\ lpc = "idle" /\ registry = "ready"
    /\ StartLoad("reload_templates")

(* one iteration of the load's for loop *)
LoadFile ==
    /\ lpc = "loading"
    /\ load_i <= Len(load_files)
    /\ \E r \in {load_step(templates, load_files[load_i])} :
         /\ templates' = r.templates
         /\ IF r.raised
            THEN /\ lpc' = "idle"
                 /\ op_result' = "Exception"
                 /\ UNCHANGED load_i
            ELSE /\ load_i' = load_i + 1
                 /\ UNCHANGED <<lpc, op_result>>
    /\ UNCHANGED <<dir_exists, dir_files, loader, registry, executors, op, load_files,
                   pre_templates, pre_executors,
                   normVars, batchVars, toolVars, resolveVars, coerceVars, stratVars>>

(* the load's for loop is over: the loader calls return, the registry      *)
(* calls go on with the executors                                          *)
LoadDone ==
    /\ lpc = "loading"
    /\ load_i > Len(load_files)
    /\ loader' = "ready"
    /\ IF op \in {"get_template_loader", "reload"}
       THEN /\ lpc' = "idle"
            /\ op_result' = "returned"
            /\ UNCHANGED executors
       ELSE StartExecutors
    /\ UNCHANGED <<dir_exists, dir_files, templates, registry, op, load_files, load_i,
                   pre_templates, pre_executors,
                   normVars, batchVars, toolVars, resolveVars, coerceVars, stratVars>>

(* _initialize_executors, and the end of the registry call.  A constructor *)
(* that raises leaves _registry None.                                      *)
InitializeExecutors ==
    /\ lpc = "executors"
    /\ \E r \in {initialize_executors(executors, templates, 1)} :
         /\ executors' = IF r.raised /\ op = "get_tool_registry" THEN <<>> ELSE r.executors
         /\ op_result' = IF r.raised THEN "TypeError" ELSE "returned"
         /\ registry' = IF r.raised THEN registry ELSE "ready"
    /\ lpc' = "idle"
    /\ UNCHANGED <<dir_exists, dir_files, loader, templates, op, load_files, load_i,
                   pre_templates, pre_executors,
                   normVars, batchVars, toolVars, resolveVars, coerceVars, stratVars>>

(* the templates directory as it can be found: missing, or holding up to   *)
(* MaxFiles descriptors                                                    *)
Sources ==
    {[exists |-> FALSE, files |-> <<>>]}
    \cup {[exists |-> TRUE, files |-> q] : q \in SeqsUpTo(Descriptors, MaxFiles)}

(* the directory after one edit: removed, created, one file added or one   *)
(* file deleted                                                            *)
Edits(exists, files) ==
    IF ~exists THEN {[exists |-> TRUE, files |-> <<>>]}
    ELSE {[exists |-> FALSE, files |-> <<>>]}
         \cup {[exists |-> TRUE, files |-> Append(files, d)] :
                   d \in IF Len(files) < MaxFiles THEN Descriptors ELSE {}}
         \cup {[exists |-> TRUE,
                 files |-> SubSeq(files, 1, k - 1) \o SubSeq(files, k + 1, Len(files))] :
                   k \in DOMAIN files}

(* the environment: between two calls the directory is edited or removed *)
SourceChange ==
    /\ lpc = "idle"
    /\ \E src \in Edits(dir_exists, dir_files) :
         /\ dir_exists' = src.exists
         /\ dir_files' = src.files
    /\ op_result' = "none"
    /\ pre_templates' = <<>>
    /\ pre_executors' = <<>>
    /\ load_files' = <<>>
    /\ load_i' = 0
    /\ UNCHANGED <<loader, templates, registry, executors, op, lpc,
                   normVars, batchVars, toolVars, resolveVars, coerceVars, stratVars>>

-----------------------------------------------------------------------------
InitNorm ==
    /\ input_list \in SeqsUpTo(RawItems, MaxLen)
    /\ normalized = <<>>
    /\ auto_id_counter = 0
    /\ npc = "call"
    \* the other machines are idle
    /\ items = <<>>
    /\ max_concurrent = 0
    /\ semaphore = 0
    /\ task = <<>>
    /\ outcome = <<>>
    /\ task_result = <<>>
    /\ finish_order = <<>>
    /\ results = <<>>
    /\ metadata = [total_items |-> 0, successful |-> 0, failed |-> 0]
    /\ bpc = "idle"
    /\ tool = "none"
    /\ args = DefaultArgs
    /\ tool_input = <<>>
    /\ tool_items = <<>>
    /\ cur = 0
    /\ attempt = 0
    /\ user_prompt = <<>>
    /\ result_data = JNull
    /\ last_error = NoMessage
    /\ tool_results = <<>>
    /\ hist = <<>>
    /\ hist_item = 0
    /\ raised_items = {}
    /\ tpc = "idle"
    /\ resolve_prompt = <<>>
    /\ resolve_inputs = <<>>
    /\ resolve_default = <<>>
    /\ field_refs = <<>>
    /\ field_i = 0
    /\ resolved = <<>>
    /\ rpc = "idle"
    /\ dir_exists = FALSE
    /\ dir_files = <<>>
    /\ loader = "none"
    /\ templates = <<>>
    /\ registry = "none"
    /\ executors = <<>>
    /\ op = "none"
    /\ load_files = <<>>
    /\ load_i = 0
    /\ pre_templates = <<>>
    /\ pre_executors = <<>>
    /\ op_result = "none"
    /\ lpc = "off"
    /\ co_data = JNull
    /\ co_schema = EmptyDict
    /\ co_once = JNull
    /\ co_twice = JNull
    /\ cpc = "idle"
    /\ strategy = "none"
    /\ strat_params = EmptyDict
    /\ strat_items = <<>>
    /\ strat_replies = <<>>
    /\ strat_results = <<>>
    /\ strat_error = NoMessage
    /\ spc = "idle"

NextNorm == NormalizeCall
SpecNorm == InitNorm /\ [][NextNorm]_vars

(* batch_process up to the await of asyncio.gather: the semaphore is       *)
(* created full and one task per item is built, in input order.            *)
InitBatch ==
    /\ items \in SeqsUpTo(BatchItemSet, MaxItems)
    /\ max_concurrent \in 1..MaxConcurrent
    /\ semaphore = max_concurrent
    /\ task = [k \in 1..Len(items) |-> "pending"]
    /\ outcome = [k \in 1..Len(items) |-> NoOutcome]
    /\ task_result = [k \in 1..Len(items) |-> NoOutput]
    /\ finish_order = <<>>
    /\ results = <<>>
    /\ metadata = [total_items |-> 0, successful |-> 0, failed |-> 0]
    /\ bpc = "gather"
    \* the other machines are idle
    /\ input_list = <<>>
    /\ normalized = <<>>
    /\ auto_id_counter = 0
    /\ npc = "idle"
    /\ tool = "none"
    /\ args = DefaultArgs
    /\ tool_input = <<>>
    /\ tool_items = <<>>
    /\ cur = 0
    /\ attempt = 0
    /\ user_prompt = <<>>
    /\ result_data = JNull
    /\ last_error = NoMessage
    /\ tool_results = <<>>
    /\ hist = <<>>
    /\ hist_item = 0
    /\ raised_items = {}
    /\ tpc = "idle"
    /\ resolve_prompt = <<>>
    /\ resolve_inputs = <<>>
    /\ resolve_default = <<>>
    /\ field_refs = <<>>
    /\ field_i = 0
    /\ resolved = <<>>
    /\ rpc = "idle"
    /\ dir_exists = FALSE
    /\ dir_files = <<>>
    /\ loader = "none"
    /\ templates = <<>>
    /\ registry = "none"
    /\ executors = <<>>
    /\ op = "none"
    /\ load_files = <<>>
    /\ load_i = 0
    /\ pre_templates = <<>>
    /\ pre_executors = <<>>
    /\ op_result = "none"
    /\ lpc = "off"
    /\ co_data = JNull
    /\ co_schema = EmptyDict
    /\ co_once = JNull
    /\ co_twice = JNull
    /\ cpc = "idle"
    /\ strategy = "none"
    /\ strat_params = EmptyDict
    /\ strat_items = <<>>
    /\ strat_replies = <<>>
    /\ strat_results = <<>>
    /\ strat_error = NoMessage
    /\ spc = "idle"

NextBatch ==
    \/ \E k \in DOMAIN task : Acquire(k)
    \/ \E k \in DOMAIN task : OperationReturns(k)
    \/ \E k \in DOMAIN task : OperationRaises(k)
    \/ BatchReturn
    \/ BatchRaise
SpecBatch == InitBatch /\ [][NextBatch]_vars

(* the event loop runs every task that is ready, every awaited operation   *)
(* completes (it returns or raises), and the awaiter of gather is resumed  *)
FairBatch ==
    /\ \A k \in 1..MaxItems : WF_vars(k \in DOMAIN task /\ Acquire(k))
    /\ \A k \in 1..MaxItems :
          WF_vars(k \in DOMAIN task /\ (OperationReturns(k) \/ OperationRaises(k)))
    /\ WF_vars(BatchReturn)
    /\ WF_vars(BatchRaise)
SpecBatchFair == InitBatch /\ [][NextBatch]_vars /\ FairBatch

NextTools ==
    \/ ToolCall
    \/ ChatReturns
    \/ ChatRaises
    \/ StructuredReturns
    \/ StructuredRaises
SpecTools == InitTools /\ [][NextTools]_vars

(* a call resolve(prompt, inputs, default) *)
InitResolve ==
    /\ resolve_prompt \in {concat(q) : q \in SeqsUpTo(PromptPieces, MaxPieces)}
    /\ resolve_inputs \in UNION {[keys -> FieldValues] : keys \in SUBSET FieldNames}
    /\ resolve_default \in { <<>>, <<"?">> }
    /\ field_refs = <<>>
    /\ field_i = 0
    /\ resolved = <<>>
    /\ rpc = "call"
    \* the other machines are idle
    /\ input_list = <<>>
    /\ normalized = <<>>
    /\ auto_id_counter = 0
    /\ npc = "idle"
    /\ items = <<>>
    /\ max_concurrent = 0
    /\ semaphore = 0
    /\ task = <<>>
    /\ outcome = <<>>
    /\ task_result = <<>>
    /\ finish_order = <<>>
    /\ results = <<>>
    /\ metadata = [total_items |-> 0, successful |-> 0, failed |-> 0]
    /\ bpc = "idle"
    /\ tool = "none"
    /\ args = DefaultArgs
    /\ tool_input = <<>>
    /\ tool_items = <<>>
    /\ cur = 0
    /\ attempt = 0
    /\ user_prompt = <<>>
    /\ result_data = JNull
    /\ last_error = NoMessage
    /\ tool_results = <<>>
    /\ hist = <<>>
    /\ hist_item = 0
    /\ raised_items = {}
    /\ tpc = "idle"
    /\ dir_exists = FALSE
    /\ dir_files = <<>>
    /\ loader = "none"
    /\ templates = <<>>
    /\ registry = "none"
    /\ executors = <<>>
    /\ op = "none"
    /\ load_files = <<>>
    /\ load_i = 0
    /\ pre_templates = <<>>
    /\ pre_executors = <<>>
    /\ op_result = "none"
    /\ lpc = "off"
    /\ co_data = JNull
    /\ co_schema = EmptyDict
    /\ co_once = JNull
    /\ co_twice = JNull
    /\ cpc = "idle"
    /\ strategy = "none"
    /\ strat_params = EmptyDict
    /\ strat_items = <<>>
    /\ strat_replies = <<>>
    /\ strat_results = <<>>
    /\ strat_error = NoMessage
    /\ spc = "idle"

NextResolve ==
    \/ ResolveCall
    \/ ResolveStep
    \/ ResolveReturn
SpecResolve == InitResolve /\ [][NextResolve]_vars

(* the process before any loader or registry exists *)
InitLoader ==
    /\ \E src \in Sources : dir_exists = src.exists /\ dir_files = src.files
    /\ loader = "none"
    /\ templates = <<>>
    /\ registry = "none"
    /\ executors = <<>>
    /\ op = "none"
    /\ load_files = <<>>
    /\ load_i = 0
    /\ pre_templates = <<>>
    /\ pre_executors = <<>>
    /\ op_result = "none"
    /\ lpc = "idle"
    \* the other machines are idle
    /\ input_list = <<>>
    /\ normalized = <<>>
    /\ auto_id_counter = 0
    /\ npc = "idle"
    /\ items = <<>>
    /\ max_concurrent = 0
    /\ semaphore = 0
    /\ task = <<>>
    /\ outcome = <<>>
    /\ task_result = <<>>
    /\ finish_order = <<>>
    /\ results = <<>>
    /\ metadata = [total_items |-> 0, successful |-> 0, failed |-> 0]
    /\ bpc = "idle"
    /\ tool = "none"
    /\ args = DefaultArgs
    /\ tool_input = <<>>
    /\ tool_items = <<>>
    /\ cur = 0
    /\ attempt = 0
    /\ user_prompt = <<>>
    /\ result_data = JNull
    /\ last_error = NoMessage
    /\ tool_results = <<>>
    /\ hist = <<>>
    /\ hist_item = 0
    /\ raised_items = {}
    /\ tpc = "idle"
    /\ resolve_prompt = <<>>
    /\ resolve_inputs = <<>>
    /\ resolve_default = <<>>
    /\ field_refs = <<>>
    /\ field_i = 0
    /\ resolved = <<>>
    /\ rpc = "idle"
    /\ co_data = JNull
    /\ co_schema = EmptyDict
    /\ co_once = JNull
    /\ co_twice = JNull
    /\ cpc = "idle"
    /\ strategy = "none"
    /\ strat_params = EmptyDict
    /\ strat_items = <<>>
    /\ strat_replies = <<>>
    /\ strat_results = <<>>
    /\ strat_error = NoMessage
    /\ spc = "idle"

NextLoader ==
    \/ GetTemplateLoader
    \/ LoaderReload
    \/ GetToolRegistry
    \/ ReloadTemplates
    \/ LoadFile
    \/ LoadDone
    \/ InitializeExecutors
    \/ SourceChange
SpecLoader == InitLoader /\ [][NextLoader]_vars

-----------------------------------------------------------------------------
LacksId(item) == ~(item.isdict /\ item.hasId)
AutoBefore(k) == Cardinality({j \in 1..(k - 1) : LacksId(input_list[j])})

-----------------------------------------------------------------------------
(* C2: batch_process returns one record per item, in input order, the k-th *)
(* record carrying the id of the k-th item, whatever the completion order  *)
(* of the tasks and the concurrency limit.                                 *)
C2_OutputOrder ==
    bpc = "returned" =>
        /\ Len(results) = Len(items)
        /\ \A k \in 1..Len(items) :
              /\ results[k].id = items[k].id
              /\ results[k] = task_result[k]

(* the tasks completed in an order other than the input order              *)
C2_Witness ==
    /\ bpc = "returned"
    /\ Len(items) = 3
    /\ items[1].id # items[3].id
    /\ finish_order = <<3, 2, 1>>

Running == {k \in DOMAIN task : task[k] = "running"}

(* C3: never more than max_concurrent operations started and unfinished,   *)
(* and batch_process does not return before every task has finished.       *)
C3_BoundedConcurrency ==
    /\ Cardinality(Running) <= max_concurrent
    /\ bpc = "returned" => \A k \in DOMAIN task : task[k] = "done"

(* more items than slots, so a task had to wait at the gate; one of the   *)
(* operations raised; the call has returned                               *)
C3_Witness ==
    /\ bpc = "returned"
    /\ Len(items) > max_concurrent
    /\ \E k \in DOMAIN task : outcome[k].kind = "raise"

FailedItems == {k \in DOMAIN outcome : outcome[k].kind = "raise"}

(* C4: exactly the items whose operation raised have a non-null error and  *)
(* a null result; the others have a null error and the operation's return  *)
(* value; metadata counts total_items = N, failed = |F|, successful = N-|F| *)
C4_BatchIsolation ==
    bpc = "returned" =>
        /\ Len(results) = Len(items)
        /\ \A k \in 1..Len(items) :
              IF k \in FailedItems
                THEN /\ ~results[k].error.null
                     /\ results[k].error.v = outcome[k].msg
                     /\ results[k].result.null
                ELSE /\ results[k].error.null
                     /\ results[k].result = outcome[k].value
        /\ metadata.total_items = Len(items)
        /\ metadata.failed = Cardinality(FailedItems)
        /\ metadata.successful = Len(items) - Cardinality(FailedItems)

(* exactly one of three items raised, with an empty message, and a sibling *)
(* returned None                                                           *)
C4_Witness ==
    /\ bpc = "returned"
    /\ Len(items) = 3
    /\ Cardinality(FailedItems) = 1
    /\ \E k \in FailedItems : outcome[k].msg = ""
    /\ \E k \in DOMAIN outcome : outcome[k].kind = "return" /\ outcome[k].value.null
    /\ metadata.failed = 1 /\ metadata.successful = 2

-----------------------------------------------------------------------------
(* Schema-based extraction: the history of the item last worked on         *)
Structured == tool = "extract" /\ args.structured
LastCall == hist[Len(hist)]
(* the record of the item the history belongs to has been appended         *)
ItemEnded == hist_item >= 1 /\ Len(tool_results) >= hist_item
ItemRecord == tool_results[hist_item]
IsPrefix(p, q) == Len(p) <= Len(q) /\ SubSeq(q, 1, Len(p)) = p

(* C1: when some attempt of an item returned a result that validates, the  *)
(* item's record carries that result and no error, also when earlier       *)
(* attempts of the item failed.                                            *)
C1_ValidResultNoError ==
    (Structured /\ hist_item >= 1) =>
        \A i \in 1..Len(hist) :
            hist[i].kind = "valid" =>
                /\ ItemEnded
                /\ ItemRecord.result = hist[i].result
                /\ ItemRecord.error.null

(* C5: when the result of the final attempt (attempt = max_retries) fails  *)
(* validation, the item's record carries that result, not null, and a      *)
(* non-null warning; the item is kept and the loop goes on.                *)
C5_FinalInvalidFlagged ==
    (Structured /\ hist_item >= 1 /\ LastCall.kind = "invalid"
                /\ LastCall.attempt = args.max_retries) =>
        /\ ItemEnded
        /\ ItemRecord.id = tool_items[hist_item].id
        /\ ItemRecord.result = LastCall.result
        /\ ItemRecord.result # JNull
        /\ ~ItemRecord.error.null
        /\ IF hist_item < Len(tool_items)
             THEN tpc = "await" /\ cur = hist_item + 1
             ELSE tpc = "returned"

(* two retries were used up, one of them on a backend exception, and the   *)
(* third result is still invalid                                           *)
C5_Witness ==
    /\ Structured /\ args.max_retries = 2
    /\ Len(hist) = 3
    /\ hist[2].kind = "raise"
    /\ LastCall.kind = "invalid"
    /\ ItemEnded
    /\ ItemRecord.result = JObj([year |-> JStr("n/a")])

(* C6: a backend exception on an attempt before the last is followed by a  *)
(* further attempt for the item; on the last attempt it ends the item with *)
(* result null and the exception's message as error, and the remaining     *)
(* items are still processed.                                              *)
C6_BackendException ==
    /\ (Structured /\ hist_item >= 1 /\ LastCall.kind = "raise") =>
          IF LastCall.attempt < args.max_retries
            THEN /\ tpc = "await" /\ cur = hist_item
                 /\ attempt = LastCall.attempt + 1
                 /\ Len(tool_results) = hist_item - 1
            ELSE /\ ItemEnded
                 /\ ItemRecord = [id |-> tool_items[hist_item].id, result |-> JNull,
                                  error |-> Message(LastCall.msg)]
                 /\ IF hist_item < Len(tool_items)
                      THEN tpc = "await" /\ cur = hist_item + 1
                      ELSE tpc = "returned"
    /\ (Structured /\ tpc = "returned") => Len(tool_results) = Len(tool_items)

(* the first item ended on a backend exception; the second got through     *)
(* after an exception on its first attempt                                 *)
C6_Witness ==
    /\ Structured /\ args.max_retries = 2
    /\ tpc = "returned" /\ Len(tool_items) = 2
    /\ raised_items = {1}
    /\ tool_results[1].result = JNull /\ ~tool_results[1].error.null
    /\ hist_item = 2 /\ Len(hist) = 2
    /\ hist[1].kind = "raise" /\ hist[2].kind = "valid"

(* C7: the retry loop ends: between 1 and max_retries + 1 backend calls    *)
(* per item, invalid results and exceptions drawing on the same budget,    *)
(* and no call after an attempt whose result validates.                    *)
C7_RetryBudget ==
    Structured =>
        /\ Len(hist) <= args.max_retries + 1
        /\ \A i \in 1..Len(hist) :
              /\ hist[i].attempt = i - 1
              /\ hist[i].kind = "valid" => (i = Len(hist) /\ ItemEnded)
        /\ ItemEnded => Len(hist) >= 1
        /\ (tpc = "await" /\ cur = hist_item) =>
              (attempt = Len(hist) /\ attempt <= args.max_retries)
        /\ (tpc = "await" /\ cur # hist_item) => attempt = 0
        /\ (hist_item >= 1 /\ Len(hist) = args.max_retries + 1) => ItemEnded

(* an exception, an invalid result and a valid one: three calls with       *)
(* max_retries = 2                                                         *)
C7_Witness ==
    /\ Structured /\ args.max_retries = 2
    /\ Len(hist) = 3
    /\ hist[1].kind = "raise" /\ hist[2].kind = "invalid" /\ hist[3].kind = "valid"
    /\ ItemEnded

FeedbackOf(result) ==
    create_error_feedback(result, response_format,
                          validate_with_details(result, response_format))

(* C8: the user prompt only grows across an item's attempts: each prompt   *)
(* is a prefix of the next, and after a validation failure the next prompt *)
(* is the previous one followed by the feedback rendered from that         *)
(* attempt's validation errors.                                            *)
C8_PromptGrows ==
    Structured =>
        /\ \A i \in 2..Len(hist) :
              /\ IsPrefix(hist[i - 1].prompt, hist[i].prompt)
              /\ hist[i - 1].kind = "invalid" =>
                    /\ hist[i].prompt =
                          hist[i - 1].prompt \o << <<>> >> \o FeedbackOf(hist[i - 1].result)
                    /\ \A e \in Range(iter_errors(hist[i - 1].result, response_format, <<>>)) :
                          \E j \in (Len(hist[i - 1].prompt) + 1)..Len(hist[i].prompt) :
                              hist[i].prompt[j] =
                                  <<"- Field '">> \o error_path(e.path) \o <<"': ">> \o e.message
              /\ hist[i - 1].kind = "raise" => hist[i].prompt = hist[i - 1].prompt
        /\ (hist_item >= 1 /\ tpc = "await" /\ cur = hist_item) =>
              IsPrefix(LastCall.prompt, user_prompt)
        /\ Len(hist) >= 1 => hist[1].prompt = initial_prompt(tool_items[hist_item])

(* two validation failures: the third prompt holds the feedback of both    *)
C8_Witness ==
    /\ Structured
    /\ Len(hist) = 3
    /\ hist[1].kind = "invalid" /\ hist[2].kind = "invalid"
    /\ hist[1].result # hist[2].result
    /\ Len(hist[3].prompt) > Len(hist[2].prompt)
    /\ Len(hist[2].prompt) > Len(hist[1].prompt)

(* a call the tools accept: a list input, at least two categories, at      *)
(* least one tag, fields or a schema                                       *)
ValidCall ==
    /\ args.input_is_list
    /\ tool = "classify" => Len(args.categories) >= 2
    /\ tool = "tag" => Len(args.tags) >= 1
    /\ tool = "extract" => (args.structured \/ Len(args.fields) >= 1)

-----------------------------------------------------------------------------
(* C11: a call with fewer than two categories, no tag, neither fields nor  *)
(* a schema, or an input that is no list raises before any backend call is *)
(* made and without any per-item record.                                   *)
C11_ParameterErrorsAbort ==
    ~ValidCall =>
        /\ tpc \in {"start", "raised"}
        /\ hist = <<>> /\ hist_item = 0
        /\ tool_results = <<>>
        /\ cur = 0

(* classify with a single category and a list of two items was rejected   *)
C11_Witness ==
    /\ tool = "classify" /\ Len(args.categories) = 1
    /\ args.input_is_list /\ Len(tool_input) = 2
    /\ tpc = "raised"
    /\ tool_results = <<>>

-----------------------------------------------------------------------------
(* Classification: the reply of the last call, trimmed, and the category   *)
(* of the item's record (inside {"category", "score"} with include_scores) *)
EqualIgnoringCase(x, y) == py_lower(x) = py_lower(y)
TrimmedReply == py_strip(LastCall.reply.s)
ClassifyReplied ==
    /\ tool = "classify" /\ ValidCall
    /\ hist_item >= 1 /\ LastCall.reply.t = "string"
MatchesSomeCategory ==
    \E c \in Range(args.categories) : EqualIgnoringCase(c, TrimmedReply)
RecordCategory ==
    IF args.include_scores /\ ItemRecord.result.t = "object"
      THEN ItemRecord.result.d.category
      ELSE ItemRecord.result

(* C14: when the trimmed reply equals a category ignoring case, the result *)
(* is a category of the caller's list, spelled as in the list, that equals *)
(* the reply ignoring case; so is the result SingleChoiceOperation makes   *)
(* of the reply.                                                           *)
C14_CaseInsensitiveMatch ==
    (ClassifyReplied /\ MatchesSomeCategory) =>
        /\ ItemEnded /\ ItemRecord.error.null
        /\ RecordCategory.t = "string"
        /\ RecordCategory.s \in Range(args.categories)
        /\ EqualIgnoringCase(RecordCategory.s, TrimmedReply)
        /\ args.include_scores => ItemRecord.result.t = "object"
        /\ single_choice_result(LastCall.reply.s, args.categories) \in Range(args.categories)
        /\ EqualIgnoringCase(single_choice_result(LastCall.reply.s, args.categories),
                             TrimmedReply)

(* the reply "Tech" gave "tech" although allow_none would give null for a  *)
(* reply that matches nothing                                              *)
C14_Witness ==
    /\ ClassifyReplied
    /\ LastCall.reply = JStr("Tech")
    /\ args.allow_none /\ ~args.include_scores
    /\ ItemEnded /\ ItemRecord.result = JStr("tech")

-----------------------------------------------------------------------------
(* Tagging: a reply came back for the last item, and the labels of a       *)
(* record (the "tag" of each entry with include_scores)                    *)
TagReplied ==
    /\ tool = "tag" /\ ValidCall
    /\ hist_item >= 1 /\ LastCall.reply.t = "string"
Labels(rec) ==
    IF args.include_scores
      THEN [i \in 1..Len(rec.result.a) |-> rec.result.a[i].d.tag]
      ELSE rec.result.a
AllowedLabel(x) == x.t = "string" /\ x.s \in Range(args.tags)

(* C16: every label of a tagging result is a tag of the caller's list,     *)
(* spelled as in the list; a label of the reply that matches no tag, even  *)
(* ignoring case, is not in the result.  The same for the labels           *)
(* MultiLabelOperation makes of the reply.                                 *)
C16_OnlyAllowedLabels ==
    /\ (tool = "tag" /\ ValidCall) =>
          \A k \in 1..Len(tool_results) :
              tool_results[k].error.null =>
                  /\ tool_results[k].result.t = "array"
                  /\ \A x \in Range(Labels(tool_results[k])) : AllowedLabel(x)
    /\ TagReplied =>
          /\ Range(parse_labels(LastCall.reply.s, args.tags, args.max_tags))
                \subseteq Range(args.tags)
          /\ \E q \in SeqsUpTo(Range(args.tags), 2) :
                multi_label_result(LastCall.reply.s, args.tags, args.max_tags)
                    = py_join(",", q)

(* the reply named "Frontend" and "ux": the result holds "frontend" and    *)
(* not "ux"                                                                *)
C16_Witness ==
    /\ TagReplied
    /\ LastCall.reply = JStr("[\"backend\", \"Frontend\", \"ux\"]")
    /\ args.max_tags.null /\ ~args.include_scores
    /\ ItemEnded
    /\ ItemRecord.result = JArr(<<JStr("backend"), JStr("frontend")>>)

(* C17: with max_tags given as a non-negative integer m, every tagging     *)
(* result holds at most m labels.                                          *)
C17_MaxTagsBound ==
    (tool = "tag" /\ ValidCall /\ ~args.max_tags.null) =>
        \A k \in 1..Len(tool_results) :
            tool_results[k].error.null =>
                Len(tool_results[k].result.a) <= args.max_tags.n

(* C18: with include_scores every score lies in [0, 1] (0..100 in          *)
(* hundredths) and the scores do not increase along the list, for any      *)
(* number of matched tags.                                                 *)
C18_ScoresInRange ==
    (tool = "tag" /\ ValidCall /\ args.include_scores) =>
        \A k \in 1..Len(tool_results) :
            tool_results[k].error.null =>
                LET entries == tool_results[k].result.a
                IN  \A i \in 1..Len(entries) :
                        /\ entries[i].d.score.n >= 0
                        /\ entries[i].d.score.n <= 100
                        /\ i > 1 => entries[i].d.score.n <= entries[i - 1].d.score.n

-----------------------------------------------------------------------------
(* every name referenced in the prompt has a non-null value in inputs *)
Covered ==
    \A k \in DOMAIN findall(resolve_prompt, 1) :
        LET name == findall(resolve_prompt, 1)[k]
        IN name \in DOMAIN resolve_inputs /\ resolve_inputs[name].t # "none"

HasPlaceholder(text) == findall(text, 1) # <<>>

(* the positions of the text that belong to a match of the pattern *)
RECURSIVE InsideMatch(_, _)
InsideMatch(text, i) ==
    IF i > Len(text) THEN {}
    ELSE LET e == match_end(text, i)
         IN IF e # 0 THEN (i..e) \cup InsideMatch(text, e + 1)
            ELSE InsideMatch(text, i + 1)

DollarFree ==
    /\ \A i \in DOMAIN resolve_prompt :
          resolve_prompt[i] = "$" => i \in InsideMatch(resolve_prompt, 1)
    /\ \A name \in DOMAIN resolve_inputs :
          \A i \in DOMAIN str_of(resolve_inputs[name]) :
              str_of(resolve_inputs[name])[i] # "$"

(* C12 as stated: when inputs has a non-null value for every name          *)
(* referenced in the prompt, the text resolve returns holds no {$name}     *)
(* pattern, whatever the values are.                                       *)
C12_NoPlaceholderRemains ==
    (rpc = "returned" /\ Covered) => ~HasPlaceholder(resolved)

(* C12 as amended: when inputs has a non-null value for every name         *)
(* referenced in the prompt, and "$" occurs neither in a value nor in the  *)
(* prompt outside its references, the text resolve returns holds no        *)
(* {$name} pattern.                                                        *)
C12_NoPlaceholderLeft ==
    (rpc = "returned" /\ Covered /\ DollarFree) => ~HasPlaceholder(resolved)

C12_Witness ==
    /\ rpc = "returned" /\ Covered /\ DollarFree
    /\ Len(field_refs) = 2
    /\ Len(findall(resolve_prompt, 1)) = 3
    /\ resolve_inputs[<<"a">>] = PyStr(<<"{">>)
    /\ resolve_inputs[<<"b">>] = PyInt(7)
    /\ resolved # resolve_prompt

(* the prompt with each match of the pattern replaced by the value of its  *)
(* name, in one pass over the original text                                *)
RECURSIVE SubstituteOnce(_, _, _, _)
SubstituteOnce(text, i, inp, dflt) ==
    IF i > Len(text) THEN <<>>
    ELSE LET e == match_end(text, i)
         IN IF e # 0
            THEN str_value(SubSeq(text, i + 2, e - 1), inp, dflt)
                     \o SubstituteOnce(text, e + 1, inp, dflt)
            ELSE <<text[i]>> \o SubstituteOnce(text, i + 1, inp, dflt)

(* C13: resolve does not re-scan substituted text: exactly the references  *)
(* of the original prompt are replaced, and a {$name} pattern that comes   *)
(* in with a value stays in the returned text as it is.                    *)
C13_NoRescan ==
    rpc = "returned" =>
        resolved = SubstituteOnce(resolve_prompt, 1, resolve_inputs, resolve_default)

-----------------------------------------------------------------------------
(* the set a complete load of the files yields *)
RECURSIVE LoadAll(_, _, _)
LoadAll(tpls, files, k) ==
    IF k > Len(files) THEN tpls
    ELSE LoadAll(load_step(tpls, files[k]).templates, files, k + 1)

ReloadEnded(call) == lpc = "idle" /\ op = call /\ op_result # "none"

(* C19: hot reload is a full atomic replace: after a reload, also one that *)
(* failed on the way, the template set (and, for the registry's reload,    *)
(* the executor set with it) is entirely the set from before the reload or *)
(* entirely the newly loaded one, never empty or a mixture.                *)
C19_AtomicReplace ==
    /\ ReloadEnded("reload") =>
          \/ templates = pre_templates
          \/ dir_exists /\ templates = LoadAll(<<>>, dir_files, 1)
    /\ ReloadEnded("reload_templates") =>
          \/ templates = pre_templates /\ executors = pre_executors
          \/ /\ dir_exists
             /\ templates = LoadAll(<<>>, dir_files, 1)
             /\ dict_keys(executors) = dict_keys(templates)

(* a descriptor that does not parse into a template: no JSON object, or a  *)
(* required key missing or of the wrong type                               *)
Malformed(d) ==
    \/ d.json # "object"
    \/ d.name = ""
    \/ d.operation_type # "LLMTool"
    \/ ~d.description
    \/ ~d.executor_config
    \/ d.outputSchema \in {"missing", "string"}

WellFormed(d) == ~Malformed(d) /\ d.outputSchema = "schema"

TemplateOf(t, d) ==
    t.tool_name = d.name /\ t.version = d.version /\ t.output_schema = d.outputSchema

(* the load of load_files has run to its end *)
LoadEnded ==
    lpc \in {"idle", "executors"} /\ load_i >= 1 /\ load_i > Len(load_files)

(* C20: with the directory there, loading never raises, whatever the       *)
(* descriptors are; afterwards every well-formed descriptor's tool is in   *)
(* the template set and every template of the set was parsed from a        *)
(* descriptor that is not malformed.                                       *)
C20_MalformedSkipped ==
    /\ op_result # "Exception"
    /\ op_result = "FileNotFoundError" => ~dir_exists
    /\ LoadEnded =>
          /\ \A k \in DOMAIN load_files :
                WellFormed(load_files[k]) =>
                    load_files[k].name \in dict_keys(templates)
          /\ \A j \in DOMAIN templates :
                \E k \in DOMAIN load_files :
                    ~Malformed(load_files[k]) /\ TemplateOf(templates[j], load_files[k])

C20_Witness ==
    /\ LoadEnded /\ op_result = "returned"
    /\ Len(load_files) = 2
    /\ Malformed(load_files[1]) /\ load_files[1].json = "object"
    /\ WellFormed(load_files[2])
    /\ Len(templates) = 1
    /\ templates[1].tool_name = load_files[2].name

(* C21: a descriptor whose outputSchema is no structurally valid JSON      *)
(* Schema is rejected at load: after a load no template and no executor    *)
(* comes from it, the other well-formed descriptors' tools are loaded and  *)
(* the load does not raise.                                                *)
C21_InvalidSchemaRejected ==
    LoadEnded =>
        /\ \A j \in DOMAIN templates : templates[j].output_schema # "bad_schema"
        /\ \A j \in DOMAIN executors : executors[j].output_schema # "bad_schema"
        /\ \A k \in DOMAIN load_files :
              WellFormed(load_files[k]) => load_files[k].name \in dict_keys(templates)
        /\ op_result # "Exception"

-----------------------------------------------------------------------------
(* C22: extract_by_llm called with a response_format that is no valid JSON *)
(* Schema raises (ValueError): no backend call is made and no per-item     *)
(* record is returned.                                                     *)
C22_InvalidSchemaRaises ==
    (tool = "extract" /\ args.structured /\ args.input_is_list
                      /\ ~check_schema(schema_of(args))) =>
        /\ tpc \in {"start", "raised"}
        /\ hist = <<>>
        /\ tool_results = <<>>

-----------------------------------------------------------------------------
(* TypeCoercer.coerce_object_to_schema applied to an object X and a schema *)
(* S, and applied again to its own result.                                 *)

(* the values of a property *)
CoValues ==
    {JNull, JStr("abc"), JStr(""), JStr(" 12 "), JStr("1"), JStr("$1,234"), JStr("50%"),
     JStr("3.5"), JStr("10/17/2025"), JStr("2025-10-17"), JStr(" 2025-10-17 "),
     JStr("Oct 17, 2025"), JStr("ACTIVE"), JStr("active"), JStr("True"),
     JInt(12), JInt(1), JNum(50), JNum(350), JBool(TRUE), JBool(FALSE),
     JArr(<<>>), JArr(<<JStr("Wade")>>), JObj([year |-> JStr("2025")])}

(* the schemas of a property: one type, a list of types, enum, format      *)
(* date, minimum/maximum, minItems, a nested object, no keyword            *)
PropSchemas ==
    {[type |-> t] : t \in simpleTypes}
    \cup {[type_list |-> q] : q \in {<<"string", "null">>, <<"null", "integer">>,
                                    <<"number", "null">>, <<"boolean", "null">>,
                                    <<"null">>, <<"integer", "string">>}}
    \cup {[type |-> "string", enum |-> <<JStr("active"), JStr("inactive")>>],
          [enum |-> <<JInt(1), JStr("Active"), JNull>>],
          [type |-> "string", format |-> "date"],
          [type_list |-> <<"string", "null">>, format |-> "date"],
          [format |-> "date"],
          [type |-> "number", minimum |-> JInt(1), maximum |-> JInt(100)],
          [type |-> "integer", minimum |-> JInt(5)],
          [minimum |-> JInt(5)],
          [type |-> "array", items |-> [type |-> "string"], minItems |-> 1],
          [type |-> "object", properties |-> [year |-> [type |-> "integer"]],
           order |-> <<"year">>],
          EmptyDict}

(* S: an object schema declaring a and b, with or without required; a      *)
(* schema without properties; a schema that is no object schema            *)
CoSchemas ==
    {[type |-> "object", properties |-> [a |-> ps, b |-> [type |-> "integer"]],
      order |-> <<"a", "b">>, required |-> req] :
        ps \in PropSchemas, req \in {<<>>, <<"a">>, <<"b">>}}
    \cup {[type |-> "object"], [type |-> "array"]}

(* X: a dict with some of the keys a, b (declared) and x (undeclared); a   *)
(* value that is no dict                                                   *)
CoObjects ==
    {JObj([key \in K |-> CASE key = "a" -> va [] key = "b" -> vb [] OTHER -> JStr(" 12 ")]) :
        K \in SUBSET {"a", "b", "x"}, va \in CoValues, vb \in {JInt(12), JStr(" 12 ")}}
    \cup {JArr(<<>>)}

InitCoerce ==
    /\ co_data \in CoObjects
    /\ co_schema \in CoSchemas
    /\ co_once = JNull
    /\ co_twice = JNull
    /\ cpc = "call"
    \* the other machines are idle
    /\ input_list = <<>>
    /\ normalized = <<>>
    /\ auto_id_counter = 0
    /\ npc = "idle"
    /\ items = <<>>
    /\ max_concurrent = 0
    /\ semaphore = 0
    /\ task = <<>>
    /\ outcome = <<>>
    /\ task_result = <<>>
    /\ finish_order = <<>>
    /\ results = <<>>
    /\ metadata = [total_items |-> 0, successful |-> 0, failed |-> 0]
    /\ bpc = "idle"
    /\ tool = "none"
    /\ args = DefaultArgs
    /\ tool_input = <<>>
    /\ tool_items = <<>>
    /\ cur = 0
    /\ attempt = 0
    /\ user_prompt = <<>>
    /\ result_data = JNull
    /\ last_error = NoMessage
    /\ tool_results = <<>>
    /\ hist = <<>>
    /\ hist_item = 0
    /\ raised_items = {}
    /\ tpc = "idle"
    /\ resolve_prompt = <<>>
    /\ resolve_inputs = <<>>
    /\ resolve_default = <<>>
    /\ field_refs = <<>>
    /\ field_i = 0
    /\ resolved = <<>>
    /\ rpc = "idle"
    /\ dir_exists = FALSE
    /\ dir_files = <<>>
    /\ loader = "none"
    /\ templates = <<>>
    /\ registry = "none"
    /\ executors = <<>>
    /\ op = "none"
    /\ load_files = <<>>
    /\ load_i = 0
    /\ pre_templates = <<>>
    /\ pre_executors = <<>>
    /\ op_result = "none"
    /\ lpc = "off"
    /\ strategy = "none"
    /\ strat_params = EmptyDict
    /\ strat_items = <<>>
    /\ strat_replies = <<>>
    /\ strat_results = <<>>
    /\ strat_error = NoMessage
    /\ spc = "idle"

(* result = TypeCoercer.coerce_object_to_schema(X, S) *)
CoerceCall ==
    /\ cpc = "call"
    /\ co_once' = coerce_object_to_schema(co_data, co_schema)
    /\ cpc' = "once"
    /\ UNCHANGED <<co_data, co_schema, co_twice,
                   normVars, batchVars, toolVars, resolveVars, loaderVars, stratVars>>

(* TypeCoercer.coerce_object_to_schema(result, S) *)
CoerceAgain ==
    /\ cpc = "once"
    /\ co_twice' = coerce_object_to_schema(co_once, co_schema)
    /\ cpc' = "twice"
    /\ UNCHANGED <<co_data, co_schema, co_once,
                   normVars, batchVars, toolVars, resolveVars, loaderVars, stratVars>>

NextCoerce ==
    \/ CoerceCall
    \/ CoerceAgain
SpecCoerce == InitCoerce /\ [][NextCoerce]_vars

-----------------------------------------------------------------------------
(* C23: coerce_object_to_schema is idempotent: for every object X and      *)
(* object schema S, coercing the coerced object again returns the coerced  *)
(* object.                                                                 *)
C23_CoerceIdempotent ==
    cpc = "twice" => co_twice = co_once

(* the first coercion parsed a percentage and left the undeclared key; the *)
(* second changed nothing                                                  *)
C23_Witness ==
    /\ cpc = "twice"
    /\ co_data = JObj([a |-> JStr("50%"), x |-> JStr(" 12 ")])
    /\ co_once = JObj([a |-> JNum(50), x |-> JStr(" 12 ")])
    /\ co_twice = co_once

(* the supported subset: a type list is a nullable union, "null" and at    *)
(* most one other type                                                     *)
nullable_union(q) == "null" \in Range(q) /\ Cardinality(Range(q) \ {"null"}) <= 1

supported_subset(schema) ==
    /\ HasKey(schema, "type") /\ schema.type = "object"
    /\ HasKey(schema, "properties") =>
          \A key \in DOMAIN schema.properties :
              HasKey(schema.properties[key], "type_list") =>
                  nullable_union(schema.properties[key].type_list)

declared(schema) == IF HasKey(schema, "properties") THEN DOMAIN schema.properties ELSE {}

(* C30: coercion never invalidates a valid object: for an object X and an  *)
(* object schema S of the supported subset, when X validates against S the *)
(* coerced object validates against S, has exactly the keys of X, and its  *)
(* properties not declared in S are unchanged.                             *)
C30_CoercionKeepsValid ==
    (/\ cpc \in {"once", "twice"}
     /\ co_data.t = "object"
     /\ supported_subset(co_schema)
     /\ validate(co_data, co_schema).is_valid) =>
        /\ validate(co_once, co_schema).is_valid
        /\ co_once.t = "object"
        /\ DOMAIN co_once.d = DOMAIN co_data.d
        /\ \A key \in DOMAIN co_data.d \ declared(co_schema) :
              co_once.d[key] = co_data.d[key]

(* a valid object whose date is rewritten by the coercion, with an         *)
(* undeclared key and a required property                                  *)
C30_Witness ==
    /\ cpc = "once"
    /\ co_schema.type = "object" /\ HasKey(co_schema, "required")
    /\ co_schema.required = <<"b">>
    /\ co_schema.properties.a = [type |-> "string", format |-> "date"]
    /\ co_data = JObj([a |-> JStr("10/17/2025"), b |-> JInt(12), x |-> JStr(" 12 ")])
    /\ validate(co_data, co_schema).is_valid
    /\ co_once = JObj([a |-> JStr("2025-10-17"), b |-> JInt(12), x |-> JStr(" 12 ")])

(* outside the subset: with the union of integer and string the valid      *)
(* string "3.5" is coerced to the number 3.5, which is neither             *)
AnyUnionKeepsValid ==
    (/\ cpc \in {"once", "twice"}
     /\ co_data.t = "object"
     /\ validate(co_data, co_schema).is_valid) =>
        validate(co_once, co_schema).is_valid

-----------------------------------------------------------------------------
(* The operation strategies SingleChoiceOperation, MultiLabelOperation and *)
(* ExtractionOperation: execute as a state machine, one step per awaited   *)
(* backend call.                                                           *)

(* json.dumps(result) on the values the replies of the model parse to *)
json_dumps(v) ==
    CASE v = JArr(<<>>) -> "[]"
      [] v = JObj([tags |-> JArr(<<>>)]) -> "{\"tags\": []}"
      [] OTHER -> "<json>"

(* the params of a call: the choices, max_tags and, for the extraction,    *)
(* which of item_to_extract, items_to_extract and response_format is given *)
StrategyParams(choices, max_tags, mode) ==
    [choices |-> choices, max_tags |-> max_tags, mode |-> mode]

StrategyCalls ==
    {[strategy |-> "single_choice", params |-> StrategyParams(c, NoInt, "none")] :
        c \in {categories, <<"tech">>}}
    \cup {[strategy |-> "multi_label", params |-> StrategyParams(c, mt, "none")] :
            c \in {tags, <<>>}, mt \in {NoInt, SomeInt(1)}}
    \cup {[strategy |-> "extraction", params |-> StrategyParams(<<>>, NoInt, mode)] :
            mode \in {"item_to_extract", "items_to_extract", "response_format", "none"}}

(* the checks of execute that raise ValueError before the loop             *)
strategy_params_valid(strat, p) ==
    CASE strat = "single_choice" -> Len(p.choices) >= 2
      [] strat = "multi_label" -> Len(p.choices) >= 1
      [] strat = "extraction" -> p.mode # "none"

(* replies of llm_client.chat: a string, or None                           *)
StrategyReplies(strat) ==
    CASE strat = "single_choice" -> {JStr("tech"), JStr("Tech"), JStr(" sports\n"),
                                     JStr("weather"), JNull}
      [] strat = "multi_label" -> {JStr("api, Backend, ux"), JStr("backend and FRONTEND"),
                                   JNull}
      [] strat = "extraction" -> {JStr("Author: Wade"), JStr("[]"), JStr("{\"tags\": []}"),
                                  JNull}

(* the body of the for loop after the awaited call: the item's result, or  *)
(* the exception the body raises                                           *)
strategy_item(strat, response, p) ==
    IF strat = "single_choice"
      THEN IF response.t = "null" THEN Exc(NoneHasNoStrip)
           ELSE Ok(JStr(single_choice_result(response.s, p.choices)))
    ELSE IF strat = "multi_label"
      THEN IF response.t = "null"
             THEN Exc(<<"'NoneType' object has no attribute 'split'">>)
             ELSE Ok(JStr(multi_label_result(response.s, p.choices, p.max_tags)))
    ELSE IF p.mode = "item_to_extract"
      THEN IF response.t = "null" THEN Exc(NoneHasNoStrip)
           ELSE Ok(JStr(py_strip(response.s)))
    ELSE IF response.t = "null"
      THEN Exc(<<"expected string or bytes-like object">>)
    ELSE LET parsed == json_loads(response.s)
         IN  IF p.mode = "items_to_extract"
               THEN IF parsed.ok /\ parsed.value.t = "array" THEN Ok(parsed.value)
                    ELSE Exc(<<"LLM did not return valid JSON array: ", response.s>>)
             ELSE IF parsed.ok THEN Ok(JStr(json_dumps(parsed.value)))
                  ELSE Exc(<<"LLM did not return valid JSON: ", response.s>>)

InitStrategy ==
    /\ \E call \in StrategyCalls : strategy = call.strategy /\ strat_params = call.params
    /\ strat_items \in {normalize(ToolInput(n)).out : n \in 0..MaxToolItems}
    /\ strat_replies = <<>>
    /\ strat_results = <<>>
    /\ strat_error = NoMessage
    /\ spc = "call"
    \* the other machines are idle
    /\ input_list = <<>>
    /\ normalized = <<>>
    /\ auto_id_counter = 0
    /\ npc = "idle"
    /\ items = <<>>
    /\ max_concurrent = 0
    /\ semaphore = 0
    /\ task = <<>>
    /\ outcome = <<>>
    /\ task_result = <<>>
    /\ finish_order = <<>>
    /\ results = <<>>
    /\ metadata = [total_items |-> 0, successful |-> 0, failed |-> 0]
    /\ bpc = "idle"
    /\ tool = "none"
    /\ args = DefaultArgs
    /\ tool_input = <<>>
    /\ tool_items = <<>>
    /\ cur = 0
    /\ attempt = 0
    /\ user_prompt = <<>>
    /\ result_data = JNull
    /\ last_error = NoMessage
    /\ tool_results = <<>>
    /\ hist = <<>>
    /\ hist_item = 0
    /\ raised_items = {}
    /\ tpc = "idle"
    /\ resolve_prompt = <<>>
    /\ resolve_inputs = <<>>
    /\ resolve_default = <<>>
    /\ field_refs = <<>>
    /\ field_i = 0
    /\ resolved = <<>>
    /\ rpc = "idle"
    /\ dir_exists = FALSE
    /\ dir_files = <<>>
    /\ loader = "none"
    /\ templates = <<>>
    /\ registry = "none"
    /\ executors = <<>>
    /\ op = "none"
    /\ load_files = <<>>
    /\ load_i = 0
    /\ pre_templates = <<>>
    /\ pre_executors = <<>>
    /\ op_result = "none"
    /\ lpc = "off"
    /\ co_data = JNull
    /\ co_schema = EmptyDict
    /\ co_once = JNull
    /\ co_twice = JNull
    /\ cpc = "idle"

(* execute is called: the parameter checks, then the first backend call,   *)
(* or the return of the empty list                                         *)
StrategyExecute ==
    /\ spc = "call"
    /\ IF ~strategy_params_valid(strategy, strat_params)
         THEN spc' = "raised" /\ strat_error' = Message(<<"ValueError">>)
         ELSE /\ spc' = IF strat_items = <<>> THEN "returned" ELSE "await"
              /\ UNCHANGED strat_error
    /\ UNCHANGED <<strategy, strat_params, strat_items, strat_replies, strat_results,
                   normVars, batchVars, toolVars, resolveVars, loaderVars, coerceVars>>

(* llm_client.chat returns: the rest of the loop body runs; an exception   *)
(* of the body leaves the loop and execute                                 *)
StrategyChatReturns ==
    /\ spc = "await"
    /\ \E response \in StrategyReplies(strategy) :
          LET r == strategy_item(strategy, response, strat_params)
              item == strat_items[Len(strat_results) + 1]
          IN  /\ strat_replies' = Append(strat_replies, response)
              /\ IF r.raised
                   THEN /\ spc' = "raised"
                        /\ strat_error' = Message(r.msg)
                        /\ UNCHANGED strat_results
                   ELSE /\ strat_results' = Append(strat_results,
                                                   [id |-> item.id, result |-> r.value])
                        /\ spc' = IF Len(strat_results) + 1 < Len(strat_items)
                                    THEN "await" ELSE "returned"
                        /\ UNCHANGED strat_error
    /\ UNCHANGED <<strategy, strat_params, strat_items,
                   normVars, batchVars, toolVars, resolveVars, loaderVars, coerceVars>>

(* llm_client.chat raises: the exception leaves the loop and execute       *)
StrategyChatRaises ==
    /\ spc = "await"
    /\ \E m \in BackendErrors :
          /\ spc' = "raised"
          /\ strat_error' = Message(m)
    /\ UNCHANGED <<strategy, strat_params, strat_items, strat_replies, strat_results,
                   normVars, batchVars, toolVars, resolveVars, loaderVars, coerceVars>>

NextStrategy ==
    \/ StrategyExecute
    \/ StrategyChatReturns
    \/ StrategyChatRaises
SpecStrategy == InitStrategy /\ [][NextStrategy]_vars

-----------------------------------------------------------------------------
(* C24: in the operation strategies a backend or parse failure while       *)
(* processing one item is confined to that item: execute does not raise,   *)
(* and returns a record for every input item, in input order.              *)
C24_FailureConfined ==
    strategy_params_valid(strategy, strat_params) =>
        /\ spc # "raised"
        /\ spc = "returned" =>
              /\ Len(strat_results) = Len(strat_items)
              /\ \A k \in 1..Len(strat_results) : strat_results[k].id = strat_items[k].id

(* the choices the trimmed reply equals ignoring case *)
ChoicesMatching(reply, choices) ==
    {i \in DOMAIN choices : py_lower(choices[i]) = py_lower(py_strip(reply))}

(* C25: in SingleChoiceOperation, when the reply matches no choice even    *)
(* ignoring case, the item's result is the trimmed reply itself.           *)
C25_UnmatchedReplyKept ==
    strategy = "single_choice" =>
        \A k \in 1..Len(strat_results) :
            ChoicesMatching(strat_replies[k].s, strat_params.choices) = {} =>
                strat_results[k].result = JStr(py_strip(strat_replies[k].s))

(* the second item's reply " sports\n" matched, the first item's reply     *)
(* "weather" did not and is its result                                     *)
C25_Witness ==
    /\ strategy = "single_choice" /\ spc = "returned"
    /\ Len(strat_results) = 2
    /\ strat_replies = <<JStr("weather"), JStr(" sports\n")>>
    /\ strat_results[1].result = JStr("weather")
    /\ strat_results[2].result = JStr("sports")

-----------------------------------------------------------------------------
(* DynamicToolRegistry.list_tools: one definition per template of the      *)
(* loader, named by _generate_mcp_tool_name, which reads                   *)
(* template["tool_name"] and so needs a dict                               *)
list_tools(tpls) ==
    IF \E k \in DOMAIN tpls : tpls[k].kind # "dict" THEN Exc(<<"TypeError">>)
    ELSE Ok(JArr([k \in DOMAIN tpls |-> JStr(tpls[k].tool_name)]))

(* DynamicToolRegistry.call_tool and LLMToolExecutor.execute: KeyError     *)
(* without an executor of that name, ValueError for a tool name execute    *)
(* does not know, else the tool's function is awaited                      *)
call_tool(execs, name) ==
    IF name \notin dict_keys(execs) THEN "KeyError"
    ELSE IF name \in {"classify_by_llm", "extract_by_llm", "tag_by_llm"} THEN "dispatched"
    ELSE "ValueError"

ToolNames == {d.name : d \in Descriptors} \cup {"unknown_tool"}

(* the tools a client is shown: the names list_tools returns *)
ListedTools == {list_tools(templates).value.a[k].s : k \in DOMAIN list_tools(templates).value.a}

(* C26: after the registry is constructed and after every reload,          *)
(* list_tools returns, and call_tool(name) fails with a not-found or       *)
(* unknown-tool error if and only if name is not among the names           *)
(* list_tools returned.                                                    *)
C26_CallIffListed ==
    (registry = "ready" /\ lpc = "idle") =>
        /\ ~list_tools(templates).raised
        /\ \A name \in ToolNames :
              call_tool(executors, name) \in {"KeyError", "ValueError"}
                  <=> name \notin ListedTools

-----------------------------------------------------------------------------
(* C27: in schema-based extraction every output record without an error    *)
(* carries a result that passed the schema validation: a result that       *)
(* failed validation on its last attempt, or a null result, is never       *)
(* returned without an error.                                              *)
C27_UnflaggedIsValid ==
    Structured =>
        \A k \in 1..Len(tool_results) :
            tool_results[k].error.null =>
                /\ tool_results[k].result # JNull
                /\ validate(tool_results[k].result, schema_of(args)).is_valid

(* the first item ended flagged with its invalid last result; the second   *)
(* item's first call raised and its second returned a result that          *)
(* validates after coercion: a record without an error                     *)
C27_Witness ==
    /\ Structured /\ tpc = "returned"
    /\ Len(tool_results) = 2
    /\ ~tool_results[1].error.null /\ tool_results[1].result = JObj([year |-> JStr("n/a")])
    /\ hist_item = 2 /\ Len(hist) = 2
    /\ hist[1].kind = "raise" /\ hist[2].kind = "valid"
    /\ hist[2].reply # hist[2].result
    /\ tool_results[2].error.null
    /\ tool_results[2].result = hist[2].result

-----------------------------------------------------------------------------
(* the call has returned, every item's operation was started and has       *)
(* completed, and all slots are free                                       *)
ReturnedAllFree ==
    /\ bpc = "returned"
    /\ \A k \in DOMAIN task : task[k] = "done" /\ outcome[k].kind # "none"
    /\ semaphore = max_concurrent

(* C28: batch_process eventually returns: when every operation invocation  *)
(* eventually completes, every item's operation is eventually started, the *)
(* slot is released on the success and on the exception path, and the call *)
(* returns with all slots free.                                            *)
C28_EventuallyReturns == <>ReturnedAllFree

(* the same for the item lists whose ids are all ints or strs              *)
IntOrStrIds == \A k \in DOMAIN items : ~output_item_raises(items[k].id)
EventuallyReturnsIntOrStrIds == IntOrStrIds => <>ReturnedAllFree

(* C29: for every item list normalize can return, also with preserved ids  *)
(* that are neither int nor str, building an item's output record never    *)
(* raises out of its task and batch_process does not raise.                *)
C29_RecordNeverRaises ==
    /\ bpc # "raised"
    /\ \A k \in DOMAIN task : task[k] # "failed"

====
